---- MODULE Spec2Model ----
(***************************************************************************)
(* Model of the MLB transfer agent (agent_executor.py, memory.py):         *)
(*   - MLBTransferAgent: lazy, lock-guarded initialization (tool discovery *)
(*     and agent build), invoke and its exception classification;          *)
(*   - MCPToolWrapper: the suspending entry point _arun (result            *)
(*     normalisation) and the blocking entry point _run (sync-over-async   *)
(*     bridge);                                                            *)
(*   - MLBTransferAgentExecutor.execute.                                   *)
(* Spec / FairSpec      : the dispatcher (callers running execute/invoke). *)
(* SpecTool / FairSpecTool : one call of a tool adapter entry point.       *)
(***************************************************************************)
EXTENDS Integers, Sequences, FiniteSets, TLC

\* ------------------------------------------------------------------ bounds
MaxInvokes == 3      \* total execute/invoke calls started
MaxTools == 2        \* longest tool listing a remote client returns
MaxItems == 2        \* longest list a tool returns
MaxFrags == 2        \* most fragments of a user text
MaxMsgs == 3         \* messages appended to the histories

\* two request tasks on the event loop
Callers == {1, 2}

\* ------------------------------------------------------ exceptions and text
\* An exception text is modelled by the set of fragments it contains:
\* "needle in str(e)" is membership, str(e).lower() maps every fragment.
Fragments ==
    {"Recursion limit", "GraphRecursionError", "ToolException",
     "structured_content", "timeout", "TIMEOUT", "boom"}

ExcTexts == {{a, b} : a \in Fragments, b \in Fragments} \cup {{}}

LowerFrag(f) ==
    CASE f = "Recursion limit" -> "recursion limit"
      [] f = "GraphRecursionError" -> "graphrecursionerror"
      [] f = "ToolException" -> "toolexception"
      [] f = "TIMEOUT" -> "timeout"
      [] f = "MLB" -> "mlb"
      [] OTHER -> f

Lower(text) == {LowerFrag(f) : f \in text}

Contains(text, needle) == needle \in text

\* Python's exception hierarchy, as far as the handlers of this code see it.
ExcClasses == {"Exception", "TimeoutError", "RuntimeError", "AttributeError", "KeyError"}

\* asyncio.CancelledError, raised in a task that is cancelled, is no Exception
CANCELLED == [cls |-> "CancelledError", text |-> {}]

Parent(cls) ==
    IF cls \in {"Exception", "CancelledError"} THEN "BaseException" ELSE "Exception"

IsSubclass(cls, handler) ==
    \/ cls = handler
    \/ Parent(cls) = handler
    \/ handler = "BaseException"

Exceptions == [cls : ExcClasses, text : ExcTexts]

\* ------------------------------------------------------------ invoke replies
RECURSION_GUIDE == [kind |-> "guide", which |-> "recursion", text |-> {}]
TOOL_GUIDE == [kind |-> "guide", which |-> "tool", text |-> {}]
TIMEOUT_GUIDE == [kind |-> "guide", which |-> "timeout", text |-> {}]
GenericError(text) == [kind |-> "generic", which |-> "error", text |-> text]
EngineReply == [kind |-> "reply", which |-> "engine", text |-> {}]
NoResult == [kind |-> "none", which |-> "none", text |-> {}]

\* the three substring tests with the timeout test moved to the front
ClassifyTimeoutFirst(text) ==
    IF Contains(Lower(text), "timeout") THEN TIMEOUT_GUIDE
    ELSE IF Contains(text, "Recursion limit") \/ Contains(text, "GraphRecursionError")
         THEN RECURSION_GUIDE
    ELSE IF Contains(text, "ToolException") \/ Contains(text, "structured_content")
         THEN TOOL_GUIDE
    ELSE GenericError(text)

\* invoke's except clause: the three substring tests in order (lines 362-384)
Classify(text) ==
    IF Contains(text, "Recursion limit") \/ Contains(text, "GraphRecursionError")
        THEN RECURSION_GUIDE
    ELSE IF Contains(text, "ToolException") \/ Contains(text, "structured_content")
        THEN TOOL_GUIDE
    ELSE IF Contains(Lower(text), "timeout")
        THEN TIMEOUT_GUIDE
    ELSE GenericError(text)

\* "except Exception as e" of invoke: which exception classes it catches
InvokeCatches(cls) == IsSubclass(cls, "Exception")

\* ------------------------------------------------ tool results and envelopes
ToolNames == {"t1", "t2"}

\* Values a remote tool returns.  A mapping is a function from its keys to the
\* type name of each value ("None" for a null value).
ItemKeys == {"id", "team"}
FieldKinds == {"absent", "None", "str", "int"}
AllowList == {"fullname", "id", "primaryposition", "status"}

Mappings == [ItemKeys -> FieldKinds]
MapValue(m) == [k |-> "dict", f |-> m, strOk |-> TRUE]
ScalarValue(t) == [k |-> t, f |-> <<>>, strOk |-> TRUE]
BadStrValue == [k |-> "object", f |-> <<>>, strOk |-> FALSE]
NoneValue == [k |-> "NoneType", f |-> <<>>, strOk |-> TRUE]

Items == {MapValue(m) : m \in Mappings} \cup {ScalarValue("int"), ScalarValue("str")}

SeqsUpTo(S, n) == UNION {[1..i -> S] : i \in 0..n}

ListValue(s) == [k |-> "list", items |-> s]
ListValues == {ListValue(s) : s \in SeqsUpTo(Items, MaxItems)}

ToolValues ==
    ListValues \cup {MapValue(m) : m \in Mappings}
    \cup {NoneValue, ScalarValue("int"), ScalarValue("str"), BadStrValue}

\* What one remote call does: returns a value, raises, or never answers.
RemoteRaises ==
    {[cls |-> "TimeoutError", text |-> {}],
     [cls |-> "TimeoutError", text |-> {"timeout"}],
     [cls |-> "RuntimeError", text |-> {"boom"}],
     [cls |-> "Exception", text |-> {"ToolException"}]}

Returned(v) == [kind |-> "value", v |-> v]
Raised(e) == [kind |-> "raise", exc |-> e]
Hang == [kind |-> "hang"]

ToolOutcomes ==
    {Returned(v) : v \in ToolValues} \cup {Raised(e) : e \in RemoteRaises} \cup {Hang}

\* keys of the first element kept in the schema sample (lines 88-90)
PresentKeys(m) == {key \in DOMAIN m : m[key] # "absent"}

\* a sample that keeps null fields too
SampleFieldsKeepNull(m) ==
    LET keep == {key \in PresentKeys(m) : key \in AllowList}
    IN [key \in keep |-> m[key]]

SampleFields(m) ==
    LET keep == {key \in PresentKeys(m) : m[key] # "None" /\ key \in AllowList}
    IN [key \in keep |-> m[key]]

\* str(result) (line 121): may itself raise
StrRaises(v) == ~v.strOk

ErrorEnvelope(name, text) ==
    [error |-> text, type |-> "error", message |-> "tool_error", tool_name |-> name]

\* except clause of _run (line 62): no message, no tool name
FallbackEnvelope(text) == [error |-> text, type |-> "error"]

Return(env) == [kind |-> "return", env |-> env]
Raise(e) == [kind |-> "raise", exc |-> e]

\* the summary of a non-empty list (lines 96, 109)
TotalSummary(n) == <<"total", n>>

\* an empty list answered like a list of non-mappings
EmptyListAsOther ==
    [type |-> "list", count |-> 0, items |-> <<>>, summary |-> TotalSummary(0),
     item_type |-> "unknown"]

\* the envelope of an empty list (lines 75-81)
EmptyListEnvelope ==
    [type |-> "list", count |-> 0, items |-> <<>>, summary |-> "no_data"]

\* the envelope of a list whose first element is a mapping (lines 85-102)
DictListEnvelope(items) ==
    [type |-> "list", count |-> Len(items), items |-> items,
     summary |-> TotalSummary(Len(items)),
     schema |-> [item_type |-> "dict",
                 sample_fields |-> SampleFields(items[1].f),
                 total_items |-> Len(items)]]

\* the envelope of any other non-empty list (lines 103-111)
OtherListEnvelope(items) ==
    [type |-> "list", count |-> Len(items), items |-> items,
     summary |-> TotalSummary(Len(items)),
     item_type |-> items[1].k]

\* a conversion without the branch for a null result
NormalizeNoneAsOther(v) ==
    IF v.k = "list" THEN
        IF Len(v.items) = 0 THEN Return(EmptyListEnvelope)
        ELSE IF v.items[1].k = "dict" THEN Return(DictListEnvelope(v.items))
        ELSE Return(OtherListEnvelope(v.items))
    ELSE IF v.k = "dict" THEN Return(v)
    ELSE IF StrRaises(v) THEN Raise([cls |-> "RuntimeError", text |-> {"boom"}])
    ELSE Return([result |-> <<"str", v.k>>, type |-> v.k])

\* the branches of _arun after the remote call has returned v (lines 71-121)
Normalize(v) ==
    IF v.k = "list" THEN
        IF Len(v.items) = 0 THEN Return(EmptyListEnvelope)
        ELSE IF v.items[1].k = "dict" THEN Return(DictListEnvelope(v.items))
        ELSE Return(OtherListEnvelope(v.items))
    ELSE IF v.k = "dict" THEN Return(v)
    ELSE IF v.k = "NoneType" THEN Return([result |-> "None", message |-> "no_data"])
    ELSE IF StrRaises(v) THEN Raise([cls |-> "RuntimeError", text |-> {"boom"}])
    ELSE Return([result |-> <<"str", v.k>>, type |-> v.k])

\* the try body of _arun: the remote call, then the conversion
ARunBody(o) == IF o.kind = "raise" THEN Raise(o.exc) ELSE Normalize(o.v)

\* an _arun without its except clause
ARunCatchesNone(cls) == FALSE

\* "except Exception as e" of _arun (lines 123-130)
ARunCatches(cls) == IsSubclass(cls, "Exception")

\* an _arun whose handler guards the remote call only
ARunUnguardedConversion(name, o) ==
    IF o.kind = "raise" THEN Return(ErrorEnvelope(name, o.exc.text)) ELSE Normalize(o.v)

\* MCPToolWrapper._arun for an answered remote call: what the caller gets
ARun(name, o) ==
    LET b == ARunBody(o)
    IN IF b.kind = "raise" /\ ARunCatches(b.exc.cls)
       THEN Return(ErrorEnvelope(name, b.exc.text)) ELSE b

IsErrorEnvelope(env) == "type" \in DOMAIN env /\ env.type = "error"

\* ------------------------------------------------------------ tool discovery
ConnectMethods == {"connect_all", "connect"}
ListMethods == <<"get_tools", "list_tools", "list_all_tools">>
ListMethodSet == {ListMethods[i] : i \in 1..3}
ClientMethods == ConnectMethods \cup ListMethodSet

\* A tool the remote client lists: its name attribute (NoAttr: none), and
\* whether it has a description and whether MCPToolWrapper(tool) succeeds.
NoAttr == "-"
ToolKinds == {"ok", "nodesc", "badwrap"}
Descriptors ==
    {[name |-> n, kind |-> k] : n \in ToolNames, k \in ToolKinds}
    \cup {[name |-> NoAttr, kind |-> "ok"]}

\* key of a name-keyed mapping: the tool name, or tool_<i> (line 275)
NameKey(n) == [n |-> n, i |-> -1]
IndexKey(i) == [n |-> NoAttr, i |-> i]
Entry(key, tool) == [key |-> key, tool |-> tool]

Distinct(s) == \A i, j \in 1..Len(s) : i # j => s[i].key # s[j].key

RawList(s) == [shape |-> "list", entries |-> s]
RawDict(s) == [shape |-> "dict", entries |-> s]
RawNone == [shape |-> "none", entries |-> <<>>]
RawOther == [shape |-> "other", entries |-> <<>>]

DictEntries == {Entry(NameKey(n), t) : n \in ToolNames, t \in Descriptors}

ListAnswers ==
    {RawList(s) : s \in SeqsUpTo(Descriptors, MaxTools)}
    \cup {RawDict(s) : s \in {d \in SeqsUpTo(DictEntries, MaxTools) : Distinct(d)}}
    \cup {RawNone, RawOther}

\* a test that takes every answer for a listing
TruthyAlways(r) == TRUE

\* truth value of raw_tools in "if not raw_tools" (lines 262, 265)
Truthy(r) == r.shape = "other" \/ Len(r.entries) > 0

\* tools_dict[name] = tool (line 276): a repeated key keeps its first place
Put(d, key, tool) ==
    IF \E j \in 1..Len(d) : d[j].key = key
    THEN [j \in 1..Len(d) |-> IF d[j].key = key THEN Entry(key, tool) ELSE d[j]]
    ELSE Append(d, Entry(key, tool))

KeyOf(tool, i) == IF tool.name # NoAttr THEN NameKey(tool.name) ELSE IndexKey(i)

RECURSIVE ListToDict(_, _)
ListToDict(s, n) ==
    IF n = 0 THEN <<>> ELSE Put(ListToDict(s, n - 1), KeyOf(s[n], n - 1), s[n])

\* the wrapping loop (lines 280-288)
Wrappable(tool) == tool.name # NoAttr /\ tool.kind # "nodesc"

RECURSIVE WrapAll(_)
WrapAll(d) ==
    IF Len(d) = 0 THEN <<>>
    ELSE LET t == d[1].tool
         IN IF Wrappable(t) /\ t.kind = "ok"
            THEN <<t.name>> \o WrapAll(Tail(d)) ELSE WrapAll(Tail(d))

\* lines 269-292 applied to the listing's answer: the new self.tools
DiscoverResult(r) ==
    IF r.shape = "other" THEN <<>>
    ELSE IF r.shape = "list" THEN WrapAll(ListToDict(r.entries, Len(r.entries)))
    ELSE WrapAll(r.entries)

\* self.tools: None until discovery sets it
ToolsNone == [set |-> FALSE, list |-> <<>>]
ToolsList(s) == [set |-> TRUE, list |-> s]

\* ------------------------------------------------------- persona and prompt
\* A user text is modelled, like an exception text, by the set of fragments it
\* contains.  The cue words of lines 405, 410 and 415, romanised:
ClubCues == {"yeongip", "bogang", "gyeyak", "tusujin", "taseon"}
PlayerCues == {"keorieo", "baljeon", "saeroun dojeon", "ijeok goryeo"}
FanCues == {"tteonanda", "tteonaneun", "iyu", "aswip", "ihae"}

\* fragments that are no cue; "MLB" is changed by lower()
PlainFragments == {"MLB", "ohtani"}
TextFragments == ClubCues \cup PlayerCues \cup FanCues \cup PlainFragments

Texts == {t \in SUBSET TextFragments : Cardinality(t) <= MaxFrags}

\* any(keyword in message_lower for keyword in cues)
AnyCue(message_lower, cues) == \E keyword \in cues : Contains(message_lower, keyword)

\* a selection that tests the player cues before the club-official cues
PersonaPlayerFirst(message_lower) ==
    IF AnyCue(message_lower, PlayerCues) THEN "player"
    ELSE IF AnyCue(message_lower, ClubCues) THEN "club_official"
    ELSE IF AnyCue(message_lower, FanCues) THEN "fan"
    ELSE "club_official"

\* the if / elif / elif / else of lines 405-424
Persona(message_lower) ==
    IF AnyCue(message_lower, ClubCues) THEN "club_official"
    ELSE IF AnyCue(message_lower, PlayerCues) THEN "player"
    ELSE IF AnyCue(message_lower, FanCues) THEN "fan"
    ELSE "club_official"

\* the parts of the enhanced message
Prompt(which) == [part |-> "prompt", of |-> which, text |-> {}]
Question(text) == [part |-> "question", of |-> "user", text |-> text]
Closing(which) == [part |-> "closing", of |-> which, text |-> {}]

\* an enhanced message that quotes the lower-cased text
EnhanceQuotesLowered(user_message) ==
    LET which == Persona(Lower(user_message))
    IN <<Prompt("system"), Prompt(which), Question(Lower(user_message)), Closing(which)>>

\* _enhance_message_with_prompt (lines 397-426): the pieces in their order
EnhanceMessageWithPrompt(user_message) ==
    LET which == Persona(Lower(user_message))
    IN <<Prompt("system"), Prompt(which), Question(user_message), Closing(which)>>

NoMessage == <<>>

\* ------------------------------------------------- requests and sessions
\* optional values: None, or a value (an empty text is {}, an empty id "")
NoText == [some |-> FALSE, v |-> {}]
SomeText(t) == [some |-> TRUE, v |-> t]
NoId == [some |-> FALSE, v |-> ""]
SomeId(i) == [some |-> TRUE, v |-> i]

\* truth value of an optional value in "if x" / "x or y"
TruthyText(x) == x.some /\ x.v # {}
TruthyId(x) == x.some /\ x.v # ""

GREETING == {"annyeonghaseyo"}

\* parts of a message, objects or dicts alike (lines 442-444, 456)
TextPart(x) == [kind |-> "text", text |-> x]
FilePart == [kind |-> "file", text |-> NoText]

\* the first part of kind "text" with a non-empty text, None if there is none
FirstText(parts) ==
    LET I == {i \in 1..Len(parts) : parts[i].kind = "text" /\ TruthyText(parts[i].text)}
    IN IF I = {} THEN NoText
       ELSE parts[CHOOSE i \in I : \A j \in I : i <= j].text

\* an extraction that looks at the content field before the parts
ExtractContentFirst(context) ==
    IF context.msg /\ context.content.some
        THEN context.content.v
    ELSE IF context.msg /\ TruthyText(FirstText(context.parts))
        THEN FirstText(context.parts).v
    ELSE IF context.raw.present /\ TruthyText(FirstText(context.raw.parts))
        THEN FirstText(context.raw.parts).v
    ELSE GREETING

\* _extract_user_text (lines 435-460)
ExtractUserText(context) ==
    IF context.msg /\ TruthyText(FirstText(context.parts))
        THEN FirstText(context.parts).v
    ELSE IF context.msg /\ context.content.some
        THEN context.content.v
    ELSE IF context.raw.present /\ TruthyText(FirstText(context.raw.parts))
        THEN FirstText(context.raw.parts).v
    ELSE GREETING

SessionKeys == <<"session_id", "sessionId", "conversation_id", "conversationId">>

\* an extraction that prefers the message id to the request parameters
ExtractMessageIdFirst(context) ==
    LET params == context.raw.params
        I == {i \in 1..4 : context.raw.present /\ TruthyId(params[SessionKeys[i]])}
    IN IF context.msg /\ TruthyId(context.mid) THEN context.mid.v
       ELSE IF I # {} THEN params[SessionKeys[CHOOSE i \in I : \A j \in I : i <= j]].v
       ELSE "default"

\* _extract_session_id (lines 462-478)
ExtractSessionId(context) ==
    LET params == context.raw.params
        I == {i \in 1..4 : context.raw.present /\ TruthyId(params[SessionKeys[i]])}
    IN IF I # {} THEN params[SessionKeys[CHOOSE i \in I : \A j \in I : i <= j]].v
       ELSE IF context.msg /\ TruthyId(context.mid) THEN context.mid.v
       ELSE "default"

NoParams == [k \in {SessionKeys[i] : i \in 1..4} |-> NoId]
NoRaw == [present |-> FALSE, params |-> NoParams, parts |-> <<>>]
RawRequest(params, parts) == [present |-> TRUE, params |-> params, parts |-> parts]
NoContext == [msg |-> FALSE, parts |-> <<>>, content |-> NoText, raw |-> NoRaw, mid |-> NoId]

\* the request contexts execute is run with
PartLists ==
    {<<>>, <<TextPart(SomeText({"yeongip", "keorieo"}))>>,
     <<FilePart, TextPart(SomeText({})), TextPart(SomeText({"MLB", "iyu"}))>>}
RawRequests ==
    {NoRaw,
     RawRequest(NoParams, <<TextPart(SomeText({"keorieo", "iyu"}))>>),
     RawRequest([NoParams EXCEPT !["session_id"] = SomeId("s1")], <<>>),
     RawRequest([NoParams EXCEPT !["sessionId"] = SomeId(""),
                                 !["conversationId"] = SomeId("s2")], <<>>)}
ExecuteContexts ==
    {[msg |-> TRUE, parts |-> ps, content |-> ct, raw |-> rw, mid |-> md] :
        ps \in PartLists, ct \in {NoText, SomeText({"ohtani"})},
        rw \in RawRequests, md \in {NoId, SomeId("m1")}}
    \cup {NoContext}

\* every shape of request context the two extractions distinguish: parts
\* with and without a text, a content that is no string, an empty or a
\* non-empty one, no raw request (req.get raises and is caught), every
\* combination of absent, empty and set session parameters, a message id
SessionKeySet == {SessionKeys[i] : i \in 1..4}
ParamSets ==
    {[k \in SessionKeySet |-> IF k \in S THEN SomeId(k)
                               ELSE IF k \in E THEN SomeId("") ELSE NoId] :
        S \in SUBSET SessionKeySet, E \in SUBSET SessionKeySet}
MessagePartLists ==
    {<<>>, <<TextPart(SomeText({}))>>, <<TextPart(SomeText({"yeongip"}))>>,
     <<FilePart, TextPart(NoText), TextPart(SomeText({"MLB", "iyu"})),
       TextPart(SomeText({"ohtani"}))>>}
RawPartLists == {<<>>, <<FilePart, TextPart(SomeText({})), TextPart(SomeText({"keorieo"}))>>}
ExtractContexts ==
    {[msg |-> ms, parts |-> ps, content |-> ct, raw |-> rw, mid |-> md] :
        ms \in BOOLEAN, ps \in MessagePartLists,
        ct \in {NoText, SomeText({}), SomeText({"baljeon"})},
        rw \in {NoRaw} \cup {RawRequest(p, rp) : p \in ParamSets, rp \in RawPartLists},
        md \in {NoId, SomeId(""), SomeId("m1")}}

\* direct calls of invoke(user_message, session_id=None)
DirectCalls ==
    [text : {{}, {"MLB"}, {"tusujin", "bogang"}, {"baljeon", "aswip"}, {"MLB", "ihae"}},
     session : {NoId, SomeId(""), SomeId("default"), SomeId("s1")}]

\* what invoke was called with, and by whom
NoReq == [via |-> "none", context |-> NoContext, text |-> {}, session |-> NoId]
ExecuteRequest(context) ==
    [via |-> "execute", context |-> context, text |-> ExtractUserText(context),
     session |-> SomeId(ExtractSessionId(context))]
DirectRequest(d) ==
    [via |-> "direct", context |-> NoContext, text |-> d.text, session |-> d.session]

\* config={"configurable": {"session_id": session_id or "default"}} (line 349)
ConfigSessionId(session_id) == IF TruthyId(session_id) THEN session_id.v ELSE "default"

\* get_history (memory.py lines 92-93): the session whose history is used
HistoryKey(session_id) == IF session_id = "" THEN "default" ELSE session_id

\* What RunnableWithMessageHistory hands to the history factory: the config
\* mapping the factory is written for, or the value of the configurable
\* field session_id itself (the library's call convention for a factory of
\* one parameter).
FactoryArgShapes == {"config", "session_id"}
FactoryArg(shape, session_id) == [shape |-> shape, session_id |-> session_id]

FoundHistory(key) == [ok |-> TRUE, key |-> key]
FactoryRaises == [ok |-> FALSE, key |-> ""]
NO_ATTRIBUTE == [cls |-> "AttributeError", text |-> {"no attribute"}]

\* a factory that keeps one history for every session
GetSessionHistoryShared(config) == FoundHistory("default")

\* get_session_history (lines 319-322): a mapping is asked for
\* configurable.session_id, an empty string counts as no config, any other
\* string has no get()
GetSessionHistory(config) ==
    IF config.shape = "config"
    THEN FoundHistory(HistoryKey(IF config.session_id # "" THEN config.session_id
                                 ELSE "default"))
    ELSE IF config.session_id = "" THEN FoundHistory(HistoryKey("default"))
    ELSE FactoryRaises

\* the events execute enqueues (lines 486-493) when no except clause is there
ExecuteEventsNoExcept(outcome, content_ok) ==
    IF outcome = "returned" /\ content_ok THEN <<"reply">> ELSE <<>>

\* the events execute enqueues (lines 486-493): the reply, or the error text
\* when building the reply message raises; an exception of invoke that is no
\* Exception passes through
ExecuteEvents(outcome, content_ok) ==
    IF outcome = "returned" /\ content_ok THEN <<"reply">>
    ELSE IF outcome = "returned" THEN <<"error">>
    ELSE <<>>

\* one discovery pass: the listing operations called, what each answered,
\* and whether the last answer has been wrapped
NoListing == [called |-> <<>>, answers |-> <<>>, wrapped |-> FALSE]

\* one request's run: the message sent to the engine, the histories read and
\* appended to, the calls of invoke, the events enqueued
NoRun == [sent |-> NoMessage, hread |-> {}, happ |-> {}, calls |-> 0, evt |-> <<>>]

\* ------------------------------------------------ conversation memory store
\* the two request threads that use the store
Writers == {1, 2}

\* session ids handed to get_history; "" stands for an empty or absent id
SessionIds == {"", "default", "A"}
Sessions == {HistoryKey(session_id) : session_id \in SessionIds}

\* Messages: the class of the message (its type) and its content.  The
\* content carries a serial number and the session id it was appended under.
MessageTypes == {"human", "ai", "tool"}
Message(type, n, session_id) ==
    [type |-> type, content |-> [n |-> n, under |-> session_id]]

\* _serialize_message (lines 10-19)
SerializeMessage(msg) ==
    [role |-> IF msg.type \in {"human", "ai", "system"} THEN msg.type
              ELSE IF msg.type # "" THEN msg.type ELSE "unknown",
     content |-> msg.content]

\* _deserialize_message (lines 22-32)
DeserializeMessage(data) ==
    [type |-> IF data.role \in {"human", "ai", "system"} THEN data.role ELSE "human",
     content |-> data.content]

MapSeq(Op(_), seq) == [i \in 1..Len(seq) |-> Op(seq[i])]

\* a key of the durable service, and what is stored under it: nothing, or
\* the JSON text of a list of records
RedisKeyFixed(session_id) == <<"mlb_agent:chat_history", "default">>
RedisKey(session_id) == <<"mlb_agent:chat_history", session_id>>
NoValue == [there |-> FALSE, arr |-> <<>>]
Value(arr) == [there |-> TRUE, arr |-> arr]

\* a loader without the guard for a missing key: json.loads(None) raises
LoadUnguarded(existing) == [ok |-> existing.there, arr |-> existing.arr]

\* json.loads(existing) if existing else [] (lines 47, 57, 62)
Load(existing) == [ok |-> TRUE, arr |-> IF existing.there THEN existing.arr ELSE <<>>]

\* a list extended at its front
ExtendedInFront(arr, messages) == MapSeq(SerializeMessage, messages) \o arr

\* arr.append / arr.extend of the serialized messages (lines 48, 63)
Extended(arr, messages) == arr \o MapSeq(SerializeMessage, messages)

\* the environment of the store's construction: MEMORY_BACKEND, REDIS_URL and
\* what import redis, Redis.from_url and ping do
BackendSettings == {"unset", "auto", "AUTO", "redis", "Redis", "REDIS", "memory", "other"}
UrlSettings == {"unset", "", "redis://host"}
Services == {"up", "no_module", "bad_url", "down"}
Environments == [backend : BackendSettings, url : UrlSettings, service : Services]

\* os.getenv("MEMORY_BACKEND", "auto").lower() (line 72)
Backend(env) ==
    CASE env.backend \in {"unset", "AUTO"} -> "auto"
      [] env.backend \in {"Redis", "REDIS"} -> "redis"
      [] OTHER -> env.backend

\* the store: not constructed yet, constructed, or its construction raised
NewStore == [state |-> "new", backend |-> "auto", redis |-> FALSE, attempted |-> FALSE]
Store(backend, redis, attempted) ==
    [state |-> "ready", backend |-> backend, redis |-> redis, attempted |-> attempted]
FailedStore == [state |-> "failed", backend |-> "redis", redis |-> FALSE, attempted |-> TRUE]

\* ConversationMemoryStore.__init__ (lines 70-89)
ConversationMemoryStore(env) ==
    IF Backend(env) \in {"auto", "redis"} /\ env.url \notin {"unset", ""}
    THEN IF env.service = "up" THEN Store("redis", TRUE, TRUE)
         ELSE IF Backend(env) = "redis" THEN FailedStore
         ELSE Store("memory", FALSE, TRUE)
    ELSE Store("memory", FALSE, FALSE)

\* get_history (lines 95-102): which backend serves the history
UsesRedis(store) == store.backend = "redis" /\ store.redis

\* a write that appends to the record as it is now
AppendedInPlace(current, local, messages) == Value(Extended(Load(current).arr, messages))

\* client.set(key, json.dumps(arr)) (lines 49, 64): the record is rewritten
\* from the list that was read
Rewritten(current, local, messages) == Value(Extended(local, messages))

\* ----------------------------------------------------------------- the state
VARIABLES
    methods,        \* operations the MCP client exposes (hasattr)
    agent,          \* self.agent: 0 is None, n > 0 the handle of the n-th build
    awm,            \* self.agent_with_memory, likewise
    tools,          \* self.tools
    lock,           \* self._init_lock: 0 free, else the holder
    waiters,        \* tasks waiting for the lock, first come first
    pc,             \* where each caller's task is
    pend,           \* what the awaited remote call of a caller will do
    lm,             \* index in ListMethods of the listing call in progress
    discoveries,    \* discover-and-build passes begun (line 230)
    builds,         \* calls of _create_react_agent
    invokes,        \* execute calls begun
    result,         \* what invoke returned to execute
    raised,         \* whether invoke went through its except clause
    exc,            \* the text of the exception invoke caught
    toolOut,        \* what the remote call of the tool the engine ran did
    toolEnv,        \* the envelope the engine got for it
    used,           \* the agent handle invoke ran (line 346)
    startedReady,   \* the invoke began with the agent already built
    discFailed,     \* the caller's discovery found no listing operation or it raised
    inCohort,       \* the invoke arrived before any pass had finished
    cohortPasses,   \* passes begun by such invokes
    cohortAgents,   \* agent handles such invokes ran
    firstPassDone,  \* some pass has left the locked section
    events,         \* events enqueued for the caller's current request
    req,            \* what the caller's invoke was called with
    run,            \* what the caller's request has done so far
    listing,        \* what the caller's discovery pass has listed
    \* one call of a tool adapter entry point (SpecTool)
    tname, tout, ctx, entry, tpc, cpc, cloop, remoteCalls, tres,
    \* one call of _enhance_message_with_prompt (SpecPersona)
    ptext,          \* the user text
    penh,           \* the enhanced message, NoMessage before the call
    \* the conversation memory store (SpecStore, SpecMemory)
    menv,           \* the environment the store is constructed in
    mstore,         \* the store: its backend, whether it has a client
    kv,             \* the durable service: what is stored under each key
    inmem,          \* the store's in-memory histories by session id
    wr,             \* each thread's append in progress on the durable backend
    rd,             \* what the last read of a history returned
    mlog,           \* per session, the messages appended since its last clear
    raced,          \* sessions on which operations of two threads overlapped
    lastSet,        \* what the last write of a record overwrote
    nmsg,           \* messages created so far
    \* cancel requests (SpecCancel)
    engineCancel,   \* whether the reasoning agent's object has a cancel method
    kpc,            \* where the task running cancel is
    kres            \* what the last cancel call did

dvars ==
    <<methods, agent, awm, tools, lock, waiters, pc, pend, lm, discoveries, builds, invokes, result, raised, exc, toolOut, toolEnv, used, startedReady,
      discFailed, inCohort, cohortPasses, cohortAgents, firstPassDone, events,
      req, run, listing>>

rvars == <<req, run, listing>>

tvars == <<tname, tout, ctx, entry, tpc, cpc, cloop, remoteCalls, tres>>

pvars == <<ptext, penh>>

\* the variables of the other specifications, as the dispatcher and the
\* tool adapter see them
mvars == <<menv, mstore, kv, inmem, wr, rd, mlog, raced, lastSet, nmsg>>

cvars == <<engineCancel, kpc, kres>>

xvars == <<pvars, mvars, cvars>>

vars == <<dvars, rvars, tvars, xvars>>

NoEnv == [type |-> "none"]
NoOutcome == [kind |-> "none"]

ToolIdle ==
    /\ tname = "t1" /\ tout = Hang /\ ctx = "none" /\ entry = "none"
    /\ tpc = "off" /\ cpc = "none" /\ cloop = "none" /\ remoteCalls = 0
    /\ tres = [kind |-> "none"]

PersonaIdle == ptext = {} /\ penh = NoMessage

NoAppend == [pc |-> "idle", session |-> "default", local |-> <<>>, messages |-> <<>>,
             lost |-> <<>>]
NoRead == [session |-> "default", ok |-> TRUE, messages |-> <<>>]
NoSet == [session |-> "default", lost |-> <<>>]

\* the store before its construction, with empty histories
MemoryNew ==
    /\ mstore = NewStore
    /\ kv = [k \in {RedisKey(s) : s \in Sessions} |-> NoValue]
    /\ inmem = [s \in Sessions |-> NoValue]
    /\ wr = [w \in Writers |-> NoAppend]
    /\ rd = NoRead
    /\ mlog = [s \in Sessions |-> <<>>]
    /\ raced = {}
    /\ lastSet = NoSet
    /\ nmsg = 0

\* no cancel has been asked for
NoCancel == [forwarded |-> FALSE, error |-> FALSE, outcome |-> "none"]
CancelIdle == engineCancel = FALSE /\ kpc = "idle" /\ kres = NoCancel

MemoryIdle == menv = [backend |-> "unset", url |-> "unset", service |-> "up"] /\ MemoryNew

\* MLBTransferAgent.__init__ (lines 180-184)
InitAgent ==
    /\ methods \in SUBSET ClientMethods
    /\ agent = 0 /\ awm = 0 /\ tools = ToolsNone
    /\ lock = 0 /\ waiters = <<>>
    /\ pc = [c \in Callers |-> "idle"]
    /\ pend = [c \in Callers |-> "none"]
    /\ lm = [c \in Callers |-> 1]
    /\ discoveries = 0 /\ builds = 0 /\ invokes = 0
    /\ result = [c \in Callers |-> NoResult]
    /\ raised = [c \in Callers |-> FALSE]
    /\ exc = [c \in Callers |-> {}]
    /\ toolOut = [c \in Callers |-> NoOutcome]
    /\ toolEnv = [c \in Callers |-> NoEnv]
    /\ used = [c \in Callers |-> 0]
    /\ startedReady = [c \in Callers |-> FALSE]
    /\ discFailed = [c \in Callers |-> FALSE]
    /\ inCohort = [c \in Callers |-> FALSE]
    /\ cohortPasses = 0 /\ cohortAgents = {} /\ firstPassDone = FALSE
    /\ events = [c \in Callers |-> 0]
    /\ req = [c \in Callers |-> NoReq]
    /\ run = [c \in Callers |-> NoRun]
    /\ listing = [c \in Callers |-> NoListing]
    /\ ToolIdle
    /\ PersonaIdle
    /\ MemoryIdle

Init == InitAgent /\ CancelIdle

\* ------------------------------------------------------ dispatcher actions
\* an _initialize_agent without its two early returns
NeverReady(a) == FALSE

\* "if self.agent is not None: return" (lines 225 and 228)
AgentReady(a) == a # 0

\* invoke's except clause (lines 357-384) for exception e of caller c
Caught(c, e) ==
    IF InvokeCatches(e.cls)
    THEN /\ result' = [result EXCEPT ![c] = Classify(e.text)]
         /\ raised' = [raised EXCEPT ![c] = TRUE]
         /\ exc' = [exc EXCEPT ![c] = e.text]
         /\ pc' = [pc EXCEPT ![c] = "returned"]
    ELSE /\ pc' = [pc EXCEPT ![c] = "escaped"]
         /\ UNCHANGED <<result, raised, exc>>

\* line 230: a pass of the discover-and-build section begins
BeginPass(c, cohort) ==
    /\ discoveries' = discoveries + 1
    /\ cohortPasses' = IF cohort THEN cohortPasses + 1 ELSE cohortPasses

\* execute (lines 480-484): a request task extracts the text and the session
\* id from its context and calls invoke
Execute(c, X) ==
    /\ pc[c] = "idle"
    /\ invokes < MaxInvokes
    /\ invokes' = invokes + 1
    /\ pc' = [pc EXCEPT ![c] = "init"]
    /\ events' = [events EXCEPT ![c] = 0]
    /\ \E context \in X : req' = [req EXCEPT ![c] = ExecuteRequest(context)]
    /\ run' = [run EXCEPT ![c] = [NoRun EXCEPT !.calls = 1]]
    /\ UNCHANGED <<methods, agent, awm, tools, lock, waiters, pend, lm, discoveries,
                   builds, result, raised, exc, toolOut, toolEnv, used,
                   startedReady, discFailed, inCohort, cohortPasses, cohortAgents,
                   firstPassDone, listing, tvars, xvars>>

\* a caller other than execute calls invoke(user_message, session_id)
InvokeDirect(c, D) ==
    /\ pc[c] = "idle"
    /\ invokes < MaxInvokes
    /\ invokes' = invokes + 1
    /\ pc' = [pc EXCEPT ![c] = "init"]
    /\ events' = [events EXCEPT ![c] = 0]
    /\ \E d \in D : req' = [req EXCEPT ![c] = DirectRequest(d)]
    /\ run' = [run EXCEPT ![c] = [NoRun EXCEPT !.calls = 1]]
    /\ UNCHANGED <<methods, agent, awm, tools, lock, waiters, pend, lm, discoveries,
                   builds, result, raised, exc, toolOut, toolEnv, used,
                   startedReady, discFailed, inCohort, cohortPasses, cohortAgents,
                   firstPassDone, listing, tvars, xvars>>

\* _initialize_agent up to the lock (lines 225-229)
InitEnter(c) ==
    /\ pc[c] = "init"
    /\ IF AgentReady(agent)
       THEN /\ pc' = [pc EXCEPT ![c] = "post_init"]
            /\ startedReady' = [startedReady EXCEPT ![c] = TRUE]
            /\ UNCHANGED <<lock, waiters, discoveries, cohortPasses, inCohort>>
       ELSE /\ inCohort' = [inCohort EXCEPT ![c] = ~firstPassDone]
            /\ UNCHANGED startedReady
            /\ IF lock = 0 /\ waiters = <<>>
               THEN /\ lock' = c
                    /\ pc' = [pc EXCEPT ![c] = "connect"]
                    /\ BeginPass(c, ~firstPassDone)
                    /\ UNCHANGED waiters
               ELSE /\ waiters' = Append(waiters, c)
                    /\ pc' = [pc EXCEPT ![c] = "lock_wait"]
                    /\ UNCHANGED <<lock, discoveries, cohortPasses>>
    /\ UNCHANGED <<methods, agent, awm, tools, pend, lm, builds, invokes,
                   result, raised, exc, toolOut, toolEnv, used, discFailed,
                   cohortAgents, firstPassDone, events, rvars, tvars, xvars>>

\* the lock is handed to the first waiter, which checks again (lines 227-229)
LockAcquire(c) ==
    /\ pc[c] = "lock_wait"
    /\ lock = 0
    /\ waiters # <<>> /\ Head(waiters) = c
    /\ waiters' = Tail(waiters)
    /\ IF AgentReady(agent)
       THEN /\ pc' = [pc EXCEPT ![c] = "post_init"]
            /\ UNCHANGED <<lock, discoveries, cohortPasses>>
       ELSE /\ lock' = c
            /\ pc' = [pc EXCEPT ![c] = "connect"]
            /\ BeginPass(c, inCohort[c])
    /\ UNCHANGED <<methods, agent, awm, tools, pend, lm, builds, invokes,
                   result, raised, exc, toolOut, toolEnv, used, startedReady,
                   discFailed, inCohort, cohortAgents, firstPassDone, events, rvars, tvars, xvars>>

\* lines 233-240: connect under wait_for, when the client has a connect method
Connect(c) ==
    /\ pc[c] = "connect"
    /\ IF methods \cap ConnectMethods # {}
       THEN /\ \E o \in {"ok", "raise", "hang"} : pend' = [pend EXCEPT ![c] = o]
            /\ pc' = [pc EXCEPT ![c] = "await_connect"]
       ELSE /\ pc' = [pc EXCEPT ![c] = "list"]
            /\ UNCHANGED pend
    /\ lm' = [lm EXCEPT ![c] = 1]
    /\ UNCHANGED <<methods, agent, awm, tools, lock, waiters, discoveries, builds, invokes, result, raised, exc, toolOut, toolEnv, used,
                   startedReady, discFailed, inCohort, cohortPasses, cohortAgents,
                   firstPassDone, events, rvars, tvars, xvars>>

\* the connect call returns or raises; a raise is caught (lines 241-243)
ConnectReturn(c) ==
    /\ pc[c] = "await_connect"
    /\ pend[c] \in {"ok", "raise"}
    /\ pc' = [pc EXCEPT ![c] = "list"]
    /\ pend' = [pend EXCEPT ![c] = "none"]
    /\ UNCHANGED <<methods, agent, awm, tools, lock, waiters, lm, discoveries, builds, invokes, result, raised, exc, toolOut, toolEnv, used,
                   startedReady, discFailed, inCohort, cohortPasses, cohortAgents,
                   firstPassDone, events, rvars, tvars, xvars>>

\* wait_for(..., timeout=5.0) gives up on a connect that does not answer
ConnectTimeout(c) ==
    /\ pc[c] = "await_connect"
    /\ pend[c] = "hang"
    /\ pc' = [pc EXCEPT ![c] = "list"]
    /\ pend' = [pend EXCEPT ![c] = "none"]
    /\ UNCHANGED <<methods, agent, awm, tools, lock, waiters, lm, discoveries, builds, invokes, result, raised, exc, toolOut, toolEnv, used,
                   startedReady, discFailed, inCohort, cohortPasses, cohortAgents,
                   firstPassDone, events, rvars, tvars, xvars>>

\* the listing operations still to try from index i on (lines 259-267)
Exposed(i) == {j \in i..3 : ListMethods[j] \in methods}
Min(S) == CHOOSE x \in S : \A y \in S : x <= y

\* lines 247-267: no listing operation at all, or the next one is called
List(c) ==
    /\ pc[c] = "list"
    /\ IF methods \cap ListMethodSet = {}
       THEN /\ tools' = ToolsList(<<>>)
            /\ discFailed' = [discFailed EXCEPT ![c] = TRUE]
            /\ pc' = [pc EXCEPT ![c] = "build"]
            /\ UNCHANGED <<pend, lm, listing>>
       ELSE /\ Exposed(lm[c]) # {}
            /\ lm' = [lm EXCEPT ![c] = Min(Exposed(lm[c]))]
            /\ \E o \in {"answer", "hang"} : pend' = [pend EXCEPT ![c] = o]
            /\ pc' = [pc EXCEPT ![c] = "await_list"]
            /\ listing' = [listing EXCEPT ![c].called =
                               Append(@, ListMethods[Min(Exposed(lm[c]))])]
            /\ UNCHANGED <<tools, discFailed>>
    /\ UNCHANGED <<methods, agent, awm, lock, waiters, discoveries, builds, invokes,
                   result, raised, exc, toolOut, toolEnv, used, startedReady,
                   inCohort, cohortPasses, cohortAgents, firstPassDone, events, req, run, tvars, xvars>>

\* the listing call raises (lines 290-292)
ListRaise(c) ==
    /\ pc[c] = "await_list"
    /\ pend[c] = "answer"
    /\ tools' = ToolsList(<<>>)
    /\ discFailed' = [discFailed EXCEPT ![c] = TRUE]
    /\ pc' = [pc EXCEPT ![c] = "build"]
    /\ pend' = [pend EXCEPT ![c] = "none"]
    /\ UNCHANGED <<methods, agent, awm, lock, waiters, lm, discoveries, builds, invokes, result, raised, exc, toolOut, toolEnv, used,
                   startedReady, inCohort, cohortPasses, cohortAgents, firstPassDone,
                   events, rvars, tvars, xvars>>

\* the listing call answers r: try the next operation, or wrap (lines 261-288)
ListReturn(c, A) ==
    /\ pc[c] = "await_list"
    /\ pend[c] = "answer"
    /\ \E r \in A :
         IF ~Truthy(r) /\ Exposed(lm[c] + 1) # {}
         THEN /\ pc' = [pc EXCEPT ![c] = "list"]
              /\ lm' = [lm EXCEPT ![c] = lm[c] + 1]
              /\ listing' = [listing EXCEPT ![c].answers = Append(@, r)]
              /\ UNCHANGED tools
         ELSE /\ tools' = ToolsList(DiscoverResult(r))
              /\ pc' = [pc EXCEPT ![c] = "build"]
              /\ listing' = [listing EXCEPT ![c].wrapped = TRUE,
                                            ![c].answers = Append(@, r)]
              /\ UNCHANGED lm
    /\ pend' = [pend EXCEPT ![c] = "none"]
    /\ UNCHANGED <<methods, agent, awm, lock, waiters, discoveries, builds,
                   invokes, result, raised, exc, toolOut, toolEnv, used, startedReady,
                   discFailed, inCohort, cohortPasses, cohortAgents, firstPassDone,
                   events, req, run, tvars, xvars>>

\* what _create_react_agent (lines 301-331) can do: build both handles, raise
\* in create_react_agent, or raise when wrapping the agent with the history
BuildOutcomes == {"ok", "raise_agent", "raise_memory"}

\* _create_react_agent with outcome bo: the handles afterwards
CreateReactAgent(bo, n) ==
    [agent |-> IF bo = "raise_agent" THEN agent ELSE n,
     awm |-> IF bo = "ok" THEN n ELSE awm]

\* the finally clause (lines 297-299), then the lock is released and the
\* pass is over
Build(c, E) ==
    /\ pc[c] = "build"
    /\ builds' = builds + 1
    /\ lock' = 0
    /\ firstPassDone' = TRUE
    /\ listing' = [listing EXCEPT ![c] = NoListing]
    /\ \E bo \in BuildOutcomes :
         /\ agent' = CreateReactAgent(bo, builds + 1).agent
         /\ awm' = CreateReactAgent(bo, builds + 1).awm
         /\ IF bo = "ok"
            THEN /\ pc' = [pc EXCEPT ![c] = "post_init"]
                 /\ UNCHANGED <<result, raised, exc>>
            ELSE \E e \in E : Caught(c, e)
    /\ UNCHANGED <<methods, tools, waiters, pend, lm, discoveries, invokes,
                   toolOut, toolEnv, used, startedReady, discFailed, inCohort,
                   cohortPasses, cohortAgents, events, req, run, tvars, xvars>>

\* invoke after initialization (lines 338-350): the message is enhanced and
\* the engine is started; the memory wrapper first asks the history factory
\* for the session's history, calling it in one of the ways S
PostInit(c, E, S) ==
    /\ pc[c] = "post_init"
    /\ \E bo \in BuildOutcomes :
         /\ bo = "ok" \/ agent = 0
         /\ LET h == IF agent = 0 THEN CreateReactAgent(bo, builds + 1)
                     ELSE [agent |-> agent, awm |-> awm]
                target == IF h.awm # 0 THEN h.awm ELSE h.agent
                enhanced_message == EnhanceMessageWithPrompt(req[c].text)
            IN /\ agent' = h.agent
               /\ awm' = h.awm
               /\ builds' = IF agent = 0 THEN builds + 1 ELSE builds
               /\ IF bo # "ok"
                  THEN /\ UNCHANGED <<used, cohortAgents, run>>
                       /\ \E e \in E : Caught(c, e)
                  ELSE /\ used' = [used EXCEPT ![c] = target]
                       /\ cohortAgents' = IF inCohort[c] THEN cohortAgents \cup {target}
                                          ELSE cohortAgents
                       /\ IF h.awm = 0
                          THEN /\ run' = [run EXCEPT ![c].sent = enhanced_message]
                               /\ pc' = [pc EXCEPT ![c] = "engine"]
                               /\ UNCHANGED <<result, raised, exc>>
                          ELSE \E shape \in S :
                                 LET history == GetSessionHistory(
                                         FactoryArg(shape, ConfigSessionId(req[c].session)))
                                 IN IF history.ok
                                    THEN /\ run' = [run EXCEPT ![c].sent = enhanced_message,
                                                               ![c].hread = {history.key}]
                                         /\ pc' = [pc EXCEPT ![c] = "engine"]
                                         /\ UNCHANGED <<result, raised, exc>>
                                    ELSE /\ Caught(c, NO_ATTRIBUTE)
                                         /\ UNCHANGED run
    /\ UNCHANGED <<methods, tools, lock, waiters, pend, lm, discoveries,
                   invokes, toolOut, toolEnv, startedReady, discFailed, inCohort,
                   cohortPasses, firstPassDone, events, req, listing, tvars, xvars>>

\* outcomes of the remote call of a tool the engine runs
EngineToolOutcomes ==
    {Returned(NoneValue), Returned(ListValue(<<>>))} \cup {Raised(e) : e \in RemoteRaises}

\* the engine runs one of the agent's tools through _arun
EngineToolCall(c, O) ==
    /\ pc[c] = "engine"
    /\ toolOut[c] = NoOutcome
    /\ \E i \in 1..Len(tools.list), o \in O :
         LET r == ARun(tools.list[i], o)
         IN /\ toolOut' = [toolOut EXCEPT ![c] = o]
            /\ IF r.kind = "return"
               THEN /\ toolEnv' = [toolEnv EXCEPT ![c] = r.env]
                    /\ UNCHANGED <<pc, result, raised, exc>>
               ELSE /\ UNCHANGED toolEnv
                    /\ Caught(c, r.exc)
    /\ UNCHANGED <<methods, agent, awm, tools, lock, waiters, pend, lm, discoveries,
                   builds, invokes, used, startedReady, discFailed,
                   inCohort, cohortPasses, cohortAgents, firstPassDone, events, rvars, tvars, xvars>>

\* the engine answers (lines 347-355); the memory wrapper appends the
\* exchange to the history it read
EngineReturn(c) ==
    /\ pc[c] = "engine"
    /\ result' = [result EXCEPT ![c] = EngineReply]
    /\ pc' = [pc EXCEPT ![c] = "returned"]
    /\ run' = [run EXCEPT ![c].happ = run[c].hread]
    /\ UNCHANGED <<methods, agent, awm, tools, lock, waiters, pend, lm, discoveries,
                   builds, invokes, raised, exc, toolOut, toolEnv, used,
                   startedReady, discFailed, inCohort, cohortPasses, cohortAgents,
                   firstPassDone, events, req, listing, tvars, xvars>>

\* the engine, or reading its response (line 353), raises
EngineRaise(c, E) ==
    /\ pc[c] = "engine"
    /\ \E e \in E : Caught(c, e)
    /\ UNCHANGED <<methods, agent, awm, tools, lock, waiters, pend, lm, discoveries,
                   builds, invokes, toolOut, toolEnv, used, startedReady,
                   discFailed, inCohort, cohortPasses, cohortAgents, firstPassDone,
                   events, rvars, tvars, xvars>>

\* execute enqueues the response event (lines 486-493); K: whether the
\* engine's reply is a text new_agent_text_message accepts
Enqueue(c, K) ==
    /\ req[c].via = "execute"
    /\ pc[c] \in {"returned", "escaped"}
    /\ \E content_ok \in (IF result[c].kind = "reply" THEN K ELSE {TRUE}) :
         LET evts == ExecuteEvents(pc[c], content_ok)
         IN /\ events' = [events EXCEPT ![c] = events[c] + Len(evts)]
            /\ run' = [run EXCEPT ![c].evt = evts]
    /\ pc' = [pc EXCEPT ![c] = "done"]
    /\ UNCHANGED <<methods, agent, awm, tools, lock, waiters, pend, lm, discoveries,
                   builds, invokes, result, raised, exc, toolOut, toolEnv, used,
                   startedReady, discFailed, inCohort, cohortPasses, cohortAgents,
                   firstPassDone, req, listing, tvars, xvars>>

\* the request is over: execute has returned, or invoke has returned to the
\* caller that called it directly
Finish(c) ==
    /\ \/ pc[c] = "done"
       \/ req[c].via = "direct" /\ pc[c] \in {"returned", "escaped"}
    /\ pc' = [pc EXCEPT ![c] = "idle"]
    /\ result' = [result EXCEPT ![c] = NoResult]
    /\ raised' = [raised EXCEPT ![c] = FALSE]
    /\ exc' = [exc EXCEPT ![c] = {}]
    /\ toolOut' = [toolOut EXCEPT ![c] = NoOutcome]
    /\ toolEnv' = [toolEnv EXCEPT ![c] = NoEnv]
    /\ used' = [used EXCEPT ![c] = 0]
    /\ startedReady' = [startedReady EXCEPT ![c] = FALSE]
    /\ discFailed' = [discFailed EXCEPT ![c] = FALSE]
    /\ inCohort' = [inCohort EXCEPT ![c] = FALSE]
    /\ req' = [req EXCEPT ![c] = NoReq]
    /\ run' = [run EXCEPT ![c] = NoRun]
    /\ UNCHANGED <<methods, agent, awm, tools, lock, waiters, pend, lm, discoveries,
                   builds, invokes, cohortPasses, cohortAgents,
                   firstPassDone, events, listing, tvars, xvars>>

\* the "except Exception" clauses of _initialize_agent (lines 241, 290, 294)
InitCatches(cls) == IsSubclass(cls, "Exception")

\* the task is cancelled while it awaits connect or a listing call, holding
\* the lock: CancelledError passes the except clauses, the finally clause
\* builds the agent (line 299), the lock is released and the exception goes
\* on through invoke, unless the build raises another one
CancelHolder(c, E) ==
    /\ pc[c] \in {"await_connect", "await_list"}
    /\ pend' = [pend EXCEPT ![c] = "none"]
    /\ IF InitCatches(CANCELLED.cls)
       THEN /\ pc' = [pc EXCEPT ![c] = IF pc[c] = "await_connect" THEN "list" ELSE "build"]
            /\ tools' = IF pc[c] = "await_list" THEN ToolsList(<<>>) ELSE tools
            /\ UNCHANGED <<agent, awm, lock, builds, firstPassDone, listing,
                           result, raised, exc>>
       ELSE /\ builds' = builds + 1
            /\ lock' = 0
            /\ firstPassDone' = TRUE
            /\ listing' = [listing EXCEPT ![c] = NoListing]
            /\ UNCHANGED tools
            /\ \E bo \in BuildOutcomes :
                 /\ agent' = CreateReactAgent(bo, builds + 1).agent
                 /\ awm' = CreateReactAgent(bo, builds + 1).awm
                 /\ IF bo = "ok" THEN Caught(c, CANCELLED) ELSE \E e \in E : Caught(c, e)
    /\ UNCHANGED <<methods, waiters, lm, discoveries, invokes, toolOut, toolEnv, used,
                   startedReady, discFailed, inCohort, cohortPasses, cohortAgents,
                   events, req, run, tvars, xvars>>

\* the task is cancelled while it waits for the lock (line 227)
CancelWaiter(c) ==
    /\ pc[c] = "lock_wait"
    /\ waiters' = SelectSeq(waiters, LAMBDA w : w # c)
    /\ Caught(c, CANCELLED)
    /\ UNCHANGED <<methods, agent, awm, tools, lock, pend, lm, discoveries, builds,
                   invokes, toolOut, toolEnv, used, startedReady, discFailed, inCohort,
                   cohortPasses, cohortAgents, firstPassDone, events, rvars, tvars, xvars>>

\* the task is cancelled while it awaits the engine (line 347)
CancelEngine(c) ==
    /\ pc[c] = "engine"
    /\ Caught(c, CANCELLED)
    /\ UNCHANGED <<methods, agent, awm, tools, lock, waiters, pend, lm, discoveries,
                   builds, invokes, toolOut, toolEnv, used, startedReady, discFailed,
                   inCohort, cohortPasses, cohortAgents, firstPassDone, events, rvars,
                   tvars, xvars>>

\* the request context the concurrent specification draws from
CoreContexts ==
    {[msg |-> TRUE, parts |-> <<TextPart(SomeText({"yeongip", "keorieo"}))>>,
      content |-> NoText,
      raw |-> RawRequest([NoParams EXCEPT !["session_id"] = SomeId("s1")], <<>>),
      mid |-> SomeId("m1")]}

\* the exceptions and tool outcomes the concurrent specification draws from
CoreExceptions ==
    {[cls |-> "RuntimeError", text |-> {"boom"}],
     [cls |-> "TimeoutError", text |-> {"timeout"}]}

\* the listing answers the dispatcher specifications draw from
CoreAnswers ==
    {RawNone, RawOther, RawList(<<>>),
     RawList(<<[name |-> "t1", kind |-> "ok"]>>),
     RawDict(<<Entry(NameKey("t1"), [name |-> "t1", kind |-> "ok"]),
               Entry(NameKey("t2"), [name |-> "t2", kind |-> "nodesc"])>>)}

Step(c) ==
    \/ Execute(c, CoreContexts) \/ InitEnter(c) \/ LockAcquire(c)
    \/ Connect(c) \/ ConnectReturn(c) \/ ConnectTimeout(c)
    \/ List(c) \/ ListRaise(c) \/ ListReturn(c, CoreAnswers)
    \/ Build(c, CoreExceptions) \/ PostInit(c, CoreExceptions, {"config"})
    \/ EngineReturn(c) \/ EngineRaise(c, CoreExceptions)
    \/ Enqueue(c, {TRUE}) \/ Finish(c)

Next == \E c \in Callers : Step(c)

\* concurrent request tasks on one event loop
Spec == Init /\ [][Next]_vars

\* the event loop runs every task that can run; a remote call that never
\* answers leaves its task with no step to take
FairSpec == Spec /\ \A c \in Callers : WF_vars(Step(c))

\* the listing answers and the exception the specification with cancelled
\* tasks draws from
TaskAnswers == {RawNone, RawList(<<[name |-> "t1", kind |-> "ok"]>>)}
TaskExceptions == {[cls |-> "RuntimeError", text |-> {"boom"}]}

StepTask(c) ==
    \/ Execute(c, CoreContexts) \/ InitEnter(c) \/ LockAcquire(c)
    \/ Connect(c) \/ ConnectReturn(c) \/ ConnectTimeout(c)
    \/ List(c) \/ ListRaise(c) \/ ListReturn(c, TaskAnswers)
    \/ Build(c, TaskExceptions) \/ PostInit(c, TaskExceptions, {"config"})
    \/ EngineReturn(c) \/ EngineRaise(c, TaskExceptions)
    \/ Enqueue(c, {TRUE}) \/ Finish(c)

\* concurrent request tasks, any of which may be cancelled while it waits
NextTasks ==
    \E c \in Callers :
        StepTask(c) \/ CancelHolder(c, TaskExceptions) \/ CancelWaiter(c) \/ CancelEngine(c)

SpecTasks == Init /\ [][NextTasks]_vars

\* the event loop runs every task that can run; nothing obliges anyone to
\* cancel a task
FairSpecTasks == SpecTasks /\ \A c \in Callers : WF_vars(StepTask(c))

\* one request task at a time, with every exception text and tool outcome
NextInvoke ==
    \/ Execute(1, CoreContexts) \/ InitEnter(1)
    \/ Connect(1) \/ ConnectReturn(1) \/ ConnectTimeout(1)
    \/ List(1) \/ ListRaise(1) \/ ListReturn(1, CoreAnswers)
    \/ Build(1, Exceptions) \/ PostInit(1, Exceptions, FactoryArgShapes)
    \/ EngineToolCall(1, EngineToolOutcomes) \/ EngineReturn(1)
    \/ EngineRaise(1, Exceptions) \/ Enqueue(1, {TRUE}) \/ Finish(1)

SpecInvoke == Init /\ [][NextInvoke]_vars

\* one request task at a time, with every request context and direct call
NextExecute ==
    \/ Execute(1, ExecuteContexts) \/ InvokeDirect(1, DirectCalls) \/ InitEnter(1)
    \/ Connect(1) \/ ConnectReturn(1) \/ ConnectTimeout(1)
    \/ List(1) \/ ListRaise(1) \/ ListReturn(1, CoreAnswers)
    \/ Build(1, CoreExceptions) \/ PostInit(1, CoreExceptions, FactoryArgShapes)
    \/ EngineReturn(1) \/ EngineRaise(1, CoreExceptions)
    \/ Enqueue(1, BOOLEAN) \/ Finish(1)

SpecExecute == Init /\ [][NextExecute]_vars

\* ------------------------------------------- one call of a tool entry point
\* The thread that calls _run: it has a current event loop that is not running
\* ("idle"), a loop is running on it ("running"), or it has no current event
\* loop at all ("noloop": asyncio.get_event_loop() raises RuntimeError).
Contexts == {"idle", "running", "noloop"}

\* asyncio.get_event_loop() and loop.is_running() (lines 51-52)
GetEventLoop(context) ==
    CASE context = "noloop" -> "raises"
      [] context = "running" -> "running"
      [] OTHER -> "stopped"

\* a bridge that schedules the coroutine on the caller's running loop
SubmitToCallerLoop == "caller"

\* executor.submit(asyncio.run, coro): the loop the coroutine is given (line 56)
SubmitLoop == "worker"

\* a loop makes progress unless it belongs to a thread blocked in future.result()
LoopRuns(loop) == loop = "worker" \/ (loop = "caller" /\ tpc # "future_wait")

\* "except Exception as e" of _run (line 60)
RunCatches(cls) == IsSubclass(cls, "Exception")

DispatcherIdle ==
    /\ methods = {}
    /\ agent = 0 /\ awm = 0 /\ tools = ToolsNone
    /\ lock = 0 /\ waiters = <<>>
    /\ pc = [c \in Callers |-> "idle"]
    /\ pend = [c \in Callers |-> "none"]
    /\ lm = [c \in Callers |-> 1]
    /\ discoveries = 0 /\ builds = 0 /\ invokes = 0
    /\ result = [c \in Callers |-> NoResult]
    /\ raised = [c \in Callers |-> FALSE]
    /\ exc = [c \in Callers |-> {}]
    /\ toolOut = [c \in Callers |-> NoOutcome]
    /\ toolEnv = [c \in Callers |-> NoEnv]
    /\ used = [c \in Callers |-> 0]
    /\ startedReady = [c \in Callers |-> FALSE]
    /\ discFailed = [c \in Callers |-> FALSE]
    /\ inCohort = [c \in Callers |-> FALSE]
    /\ cohortPasses = 0 /\ cohortAgents = {} /\ firstPassDone = FALSE
    /\ events = [c \in Callers |-> 0]
    /\ req = [c \in Callers |-> NoReq]
    /\ run = [c \in Callers |-> NoRun]
    /\ listing = [c \in Callers |-> NoListing]

\* a wrapped tool, what its remote call will do, and who calls which entry point
InitTool ==
    /\ DispatcherIdle
    /\ tname \in ToolNames
    /\ tout \in ToolOutcomes
    /\ entry \in {"arun", "run"}
    /\ ctx \in Contexts
    /\ entry = "arun" => ctx = "running"
    /\ tpc = "start" /\ cpc = "none" /\ cloop = "none"
    /\ remoteCalls = 0
    /\ tres = [kind |-> "none"]
    /\ PersonaIdle
    /\ MemoryIdle
    /\ CancelIdle

\* a coroutine of the running loop awaits _arun
ArunAwait ==
    /\ entry = "arun" /\ tpc = "start"
    /\ tpc' = "awaiting"
    /\ cpc' = "ready"
    /\ cloop' = "caller"
    /\ UNCHANGED <<tname, tout, ctx, entry, remoteCalls, tres, dvars, xvars>>

\* _run up to the point where it waits for _arun (lines 49-59), or its except
RunEnter ==
    /\ entry = "run" /\ tpc = "start"
    /\ LET loop == GetEventLoop(ctx)
       IN IF loop = "raises"
          THEN /\ tpc' = IF RunCatches("RuntimeError") THEN "returned" ELSE "raised"
               /\ tres' = IF RunCatches("RuntimeError")
                          THEN Return(FallbackEnvelope({"no current event loop"}))
                          ELSE Raise([cls |-> "RuntimeError",
                                      text |-> {"no current event loop"}])
               /\ UNCHANGED <<cpc, cloop>>
          ELSE /\ tpc' = IF loop = "running" THEN "future_wait" ELSE "driving"
               /\ cloop' = IF loop = "running" THEN SubmitLoop ELSE "caller"
               /\ cpc' = "ready"
               /\ UNCHANGED tres
    /\ UNCHANGED <<tname, tout, ctx, entry, remoteCalls, dvars, xvars>>

\* _arun starts on its loop and awaits the remote tool (line 68)
CoroInvoke ==
    /\ cpc = "ready"
    /\ LoopRuns(cloop)
    /\ cpc' = "await_remote"
    /\ remoteCalls' = remoteCalls + 1
    /\ UNCHANGED <<tname, tout, ctx, entry, tpc, cloop, tres, dvars, xvars>>

\* the remote call answers and _arun runs to its end (lines 68-130)
RemoteAnswer ==
    /\ cpc = "await_remote"
    /\ tout.kind # "hang"
    /\ LoopRuns(cloop)
    /\ cpc' = "done"
    /\ UNCHANGED <<tname, tout, ctx, entry, tpc, cloop, remoteCalls, tres, dvars, xvars>>

\* the caller gets _arun's result: directly, from run_until_complete or from
\* future.result(); an exception out of _arun meets _run's except (lines 57-62)
Complete ==
    /\ tpc \in {"awaiting", "driving", "future_wait"}
    /\ cpc = "done"
    /\ LET r == ARun(tname, tout)
       IN IF r.kind = "return" \/ (entry = "run" /\ ~RunCatches(r.exc.cls)) \/ entry = "arun"
          THEN /\ tres' = r
               /\ tpc' = IF r.kind = "return" THEN "returned" ELSE "raised"
          ELSE /\ tres' = Return(FallbackEnvelope(r.exc.text))
               /\ tpc' = "returned"
    /\ UNCHANGED <<tname, tout, ctx, entry, cpc, cloop, remoteCalls, dvars, xvars>>

NextTool == ArunAwait \/ RunEnter \/ CoroInvoke \/ RemoteAnswer \/ Complete

SpecTool == InitTool /\ [][NextTool]_vars

\* every thread and every loop that can take a step takes it
FairSpecTool == SpecTool /\ WF_vars(NextTool)

\* ------------------------------- one call of _enhance_message_with_prompt
InitPersona ==
    /\ DispatcherIdle /\ ToolIdle /\ MemoryIdle /\ CancelIdle
    /\ ptext \in Texts
    /\ penh = NoMessage

\* the call (lines 397-426)
Enhance ==
    /\ penh = NoMessage
    /\ penh' = EnhanceMessageWithPrompt(ptext)
    /\ UNCHANGED <<ptext, dvars, tvars, mvars, cvars>>

SpecPersona == InitPersona /\ [][Enhance]_vars

\* ------------------------------------------- the conversation memory store
\* the environments the history operations are run in: the durable backend
\* auto-detected, and the in-memory backend
CoreEnvironments ==
    {[backend |-> "unset", url |-> "redis://host", service |-> "up"],
     [backend |-> "memory", url |-> "redis://host", service |-> "up"]}

InitStore ==
    DispatcherIdle /\ ToolIdle /\ PersonaIdle /\ CancelIdle /\ menv \in Environments /\ MemoryNew

InitMemory ==
    DispatcherIdle /\ ToolIdle /\ PersonaIdle /\ CancelIdle /\ menv \in CoreEnvironments
    /\ MemoryNew

\* ConversationMemoryStore() (lines 70-89)
ConstructStore ==
    /\ mstore.state = "new"
    /\ mstore' = ConversationMemoryStore(menv)
    /\ UNCHANGED <<menv, kv, inmem, wr, rd, mlog, raced, lastSet, nmsg, dvars, tvars, pvars, cvars>>

\* get_history(session_id).messages (lines 55-58, 91-102)
Messages(session_id) ==
    LET key == HistoryKey(session_id)
    IN IF UsesRedis(mstore)
       THEN [ok |-> Load(kv[RedisKey(key)]).ok,
             messages |-> MapSeq(DeserializeMessage, Load(kv[RedisKey(key)]).arr)]
       ELSE [ok |-> TRUE, messages |-> inmem[key].arr]

\* another thread is between the read and the write of this session's record
Pending(w, key) == \E v \in Writers \ {w} : wr[v].pc = "got" /\ wr[v].session = key

\* get_history(session_id).add_message / add_messages: in memory the list is
\* extended; on the durable backend the record is read (lines 46-47, 61-62)
AddMessages(w) ==
    /\ mstore.state = "ready" /\ wr[w].pc = "idle"
    /\ \E session_id \in SessionIds, type \in MessageTypes, k \in 1..2 :
         LET key == HistoryKey(session_id)
             messages == [i \in 1..k |->
                             Message(IF i = 1 THEN type ELSE "ai", nmsg + i, session_id)]
             existing == Load(kv[RedisKey(key)])
         IN /\ nmsg + k <= MaxMsgs
            /\ nmsg' = nmsg + k
            /\ IF UsesRedis(mstore)
               THEN /\ wr' = [wr EXCEPT ![w] =
                               IF existing.ok
                               THEN [pc |-> "got", session |-> key, local |-> existing.arr,
                                     messages |-> messages, lost |-> <<>>]
                               ELSE NoAppend]
                    /\ raced' = IF Pending(w, key) THEN raced \cup {key} ELSE raced
                    /\ UNCHANGED <<inmem, mlog>>
               ELSE /\ inmem' = [inmem EXCEPT ![key] = Value(@.arr \o messages)]
                    /\ mlog' = [mlog EXCEPT ![key] = @ \o messages]
                    /\ UNCHANGED <<wr, raced>>
    /\ lastSet' = NoSet
    /\ UNCHANGED <<menv, mstore, kv, rd, dvars, tvars, pvars, cvars>>

\* the durable backend's append writes the record back (lines 48-49, 63-64)
SetRecord(w) ==
    /\ wr[w].pc = "got"
    /\ LET key == wr[w].session
       IN /\ kv' = [kv EXCEPT ![RedisKey(key)] = Rewritten(@, wr[w].local, wr[w].messages)]
          /\ mlog' = [mlog EXCEPT ![key] = @ \o wr[w].messages]
          /\ lastSet' = [session |-> key, lost |-> wr[w].lost]
          /\ wr' = [v \in Writers |->
                       IF v = w THEN NoAppend
                       ELSE IF wr[v].pc = "got" /\ wr[v].session = key
                            THEN [wr[v] EXCEPT !.lost = @ \o wr[w].messages]
                       ELSE wr[v]]
    /\ UNCHANGED <<menv, mstore, inmem, rd, raced, nmsg, dvars, tvars, pvars, cvars>>

\* get_history(session_id).clear() (lines 51-52; in memory the list is emptied)
Clear(w) ==
    /\ mstore.state = "ready" /\ wr[w].pc = "idle"
    /\ \E session_id \in SessionIds :
         LET key == HistoryKey(session_id)
         IN /\ IF UsesRedis(mstore)
               THEN kv' = [kv EXCEPT ![RedisKey(key)] = NoValue] /\ UNCHANGED inmem
               ELSE inmem' = [inmem EXCEPT ![key] = Value(<<>>)] /\ UNCHANGED kv
            /\ mlog' = [mlog EXCEPT ![key] = <<>>]
            /\ raced' = IF Pending(w, key) THEN raced \cup {key} ELSE raced \ {key}
    /\ lastSet' = NoSet
    /\ UNCHANGED <<menv, mstore, wr, rd, nmsg, dvars, tvars, pvars, cvars>>

\* get_history(session_id).messages is read; in memory the history is
\* created on first access (lines 100-101)
Read(w) ==
    /\ mstore.state = "ready" /\ wr[w].pc = "idle"
    /\ \E session_id \in SessionIds :
         LET key == HistoryKey(session_id)
         IN /\ rd' = [session |-> session_id, ok |-> Messages(session_id).ok,
                      messages |-> Messages(session_id).messages]
            /\ inmem' = IF UsesRedis(mstore) \/ inmem[key].there THEN inmem
                        ELSE [inmem EXCEPT ![key] = Value(<<>>)]
    /\ lastSet' = NoSet
    /\ UNCHANGED <<menv, mstore, kv, wr, mlog, raced, nmsg, dvars, tvars, pvars, cvars>>

NextMemory ==
    \/ ConstructStore
    \/ \E w \in Writers : AddMessages(w) \/ SetRecord(w) \/ Clear(w) \/ Read(w)

\* the construction of the store in every environment
SpecStore == InitStore /\ [][ConstructStore]_vars

\* two threads using the histories of a constructed store
SpecMemory == InitMemory /\ [][NextMemory]_vars

\* ------------------------------------------------- one discovery pass
\* one request task up to the end of its initialization, with every listing
\* a client can answer
NextDiscover ==
    \/ Execute(1, CoreContexts) \/ InitEnter(1)
    \/ Connect(1) \/ ConnectReturn(1) \/ ConnectTimeout(1)
    \/ List(1) \/ ListRaise(1) \/ ListReturn(1, ListAnswers)
    \/ Build(1, CoreExceptions)

SpecDiscover == Init /\ [][NextDiscover]_vars

\* ------------------------------------------- execute's two extractions
\* one execute call with any request context, up to its call of invoke
SpecExtract == Init /\ [][Execute(1, ExtractContexts)]_vars

\* --------------------------------------------------------- cancel requests
\* a cancel that forwards without looking for the method
ExposesAlways(a) == TRUE

\* hasattr(self.agent, 'cancel') of MLBTransferAgent.cancel (line 391): None
\* has none, the reasoning agent's object may
ExposesCancel(a) == a # 0 /\ engineCancel

\* "except Exception as e" of both cancel methods (lines 394, 504)
CancelCatches(cls) == IsSubclass(cls, "Exception")

InitCancel ==
    InitAgent /\ engineCancel \in BOOLEAN /\ kpc = "idle" /\ kres = NoCancel

\* MLBTransferAgentExecutor.cancel (lines 496-505): MLBTransferAgent has a
\* cancel method, which is awaited (lines 386-391) and forwards if the
\* reasoning agent's object has one
CancelEnter ==
    /\ kpc = "idle"
    /\ IF ExposesCancel(agent)
       THEN /\ kpc' = "await_cancel"
            /\ kres' = [forwarded |-> TRUE, error |-> FALSE, outcome |-> "pending"]
       ELSE /\ kpc' = "idle"
            /\ kres' = [forwarded |-> FALSE, error |-> FALSE, outcome |-> "returned"]
    /\ UNCHANGED <<engineCancel, dvars, tvars, pvars, mvars>>

\* the forwarded cancel returns or raises (lines 392-395, 502-505)
CancelReturn(E) ==
    /\ kpc = "await_cancel"
    /\ kpc' = "idle"
    /\ \/ kres' = [kres EXCEPT !.outcome = "returned"]
       \/ \E e \in E :
            kres' = [kres EXCEPT !.error = TRUE,
                                 !.outcome = IF CancelCatches(e.cls) THEN "returned"
                                             ELSE "raised"]
    /\ UNCHANGED <<engineCancel, dvars, tvars, pvars, mvars>>

\* one request task, and cancel requests at any time
NextCancel ==
    \/ Execute(1, CoreContexts) \/ InitEnter(1)
    \/ Connect(1) \/ ConnectReturn(1) \/ ConnectTimeout(1)
    \/ List(1) \/ ListRaise(1) \/ ListReturn(1, CoreAnswers)
    \/ Build(1, CoreExceptions) \/ PostInit(1, CoreExceptions, {"config"})
    \/ EngineReturn(1) \/ EngineRaise(1, CoreExceptions)
    \/ Enqueue(1, {TRUE}) \/ Finish(1)
    \/ CancelEnter \/ CancelReturn(CoreExceptions)

SpecCancel == InitCancel /\ [][NextCancel]_vars

\* ================================================================== claims
InitPcs == {"init", "lock_wait", "connect", "await_connect", "list", "await_list", "build"}
PastInit == {"post_init", "engine", "returned"}

\* no call of _create_react_agent has raised before setting self.agent
NoAgentBuildRaised == builds = 0 \/ (builds = 1 /\ agent = 1)

\* C1: invokes that arrive while the agent is uninitialized run the
\* discover-and-build section once in total and all run the same agent handle.
C1_OnePass == cohortPasses <= 1 /\ Cardinality(cohortAgents) <= 1

\* C1, as far as the code goes: it holds until a build raises (see C3)
C1_UntilBuildRaises == NoAgentBuildRaised => C1_OnePass

\* C2: a caller whose discovery failed (the listing raised, or the client has
\* no listing operation) leaves initialization with an empty tool list and a
\* non-null agent handle.
C2_DegradedReady ==
    \A c \in Callers :
        (pc[c] \in PastInit /\ discFailed[c]) => (tools = ToolsList(<<>>) /\ agent # 0)

\* C2, as far as the code goes: it holds until a build raises (see C3)
C2_UntilBuildRaises == NoAgentBuildRaised => C2_DegradedReady

\* C3: when an invoke returns, the agent handle is non-null, whichever step
\* of the initialization raised.
C3_ReadyOnReturn == \A c \in Callers : pc[c] = "returned" => agent # 0

\* C4: a caller waiting for a connect or listing call that never answers
\* eventually leaves the initialization.
C4_DiscoveryBounded ==
    \A c \in Callers :
        (pc[c] \in {"await_connect", "await_list"} /\ pend[c] = "hang")
            ~> (pc[c] \notin InitPcs)

\* C4, as far as the code goes: only the connect call is bounded
C4_ConnectBounded ==
    \A c \in Callers : (pc[c] = "await_connect") ~> (pc[c] # "await_connect")

\* C5: once the agent handle is non-null no step discovers or builds again,
\* and the handles and the tool list stay as they are.
C5_ReadyIsStable ==
    [][agent # 0 =>
        /\ agent' = agent /\ awm' = awm /\ tools' = tools
        /\ discoveries' = discoveries /\ builds' = builds]_vars

\* an invoke that began with the agent built has failed in the engine
C5_Witness ==
    \E c \in Callers : pc[c] = "returned" /\ startedReady[c] /\ raised[c] /\ agent # 0

\* a failure of one tool call: the remote call raises, or converting its
\* result does
ConversionFails(v) == v.k \notin {"list", "dict", "NoneType"} /\ ~v.strOk
ToolFailure(o) == o.kind = "raise" \/ (o.kind = "value" /\ ConversionFails(o.v))

\* C6: _arun never raises to its caller, and for every failure it returns an
\* envelope of type "error" that carries the adapter's tool name.
C6_ArunNeverRaises ==
    entry = "arun" =>
        /\ tpc # "raised"
        /\ (tpc = "returned" /\ ToolFailure(tout)) =>
               /\ tres.kind = "return"
               /\ IsErrorEnvelope(tres.env)
               /\ "tool_name" \in DOMAIN tres.env
               /\ tres.env.tool_name = tname

\* _arun has returned after the conversion of the tool's result failed
C6_Witness ==
    /\ entry = "arun" /\ tpc = "returned"
    /\ tout.kind = "value" /\ ConversionFails(tout.v)
    /\ IsErrorEnvelope(tres.env) /\ tres.env.tool_name = tname

\* C7: in every calling context _run invokes the remote tool exactly once and
\* returns the envelope _arun returns for the same outcome.
C7_RunSameAsArun ==
    (entry = "run" /\ tpc \in {"returned", "raised"}) =>
        (tpc = "returned" /\ remoteCalls = 1 /\ tres = ARun(tname, tout))

\* C7, as far as the code goes: it holds when the calling thread has a
\* current event loop
C7_WhenLoopAvailable == ctx # "noloop" => C7_RunSameAsArun

\* caller and coroutine wait on each other: the caller is blocked on the
\* future and the coroutine's loop cannot run while the caller is blocked
MutualWait == tpc = "future_wait" /\ cpc # "done" /\ ~LoopRuns(cloop)

\* C8: a blocking call made under a running loop hands _arun to a worker
\* thread's own loop, caller and worker never wait on each other, and the
\* call returns once the remote tool has answered.
C8_BlockingCallCompletes ==
    /\ [](tpc = "future_wait" => cloop = "worker")
    /\ [](~MutualWait)
    /\ (tpc = "future_wait" /\ tout.kind # "hang") ~> (tpc = "returned" /\ remoteCalls = 1)

\* a blocking call made under a running loop has returned
C8_Witness ==
    entry = "run" /\ ctx = "running" /\ tpc = "returned" /\ remoteCalls = 1

\* the cues of the three guidance messages, as the claims state them
HasRecursionCue(t) == "Recursion limit" \in t \/ "GraphRecursionError" \in t
HasToolCue(t) == "ToolException" \in t \/ "structured_content" \in t
HasTimeoutCue(t) == \E f \in t : LowerFrag(f) = "timeout"

\* C9: invoke never raises; an exception becomes the recursion guidance if
\* its text has a recursion cue, else the tool guidance if it has a tool cue,
\* else the timeout guidance if it has "timeout" in any case, else the
\* generic message holding the text.
C9_InvokeReturnsText ==
    \A c \in Callers :
        /\ pc[c] # "escaped"
        /\ pc[c] = "returned" =>
             IF ~raised[c] THEN result[c] = EngineReply
             ELSE /\ HasRecursionCue(exc[c]) => result[c] = RECURSION_GUIDE
                  /\ (~HasRecursionCue(exc[c]) /\ HasToolCue(exc[c])) =>
                         result[c] = TOOL_GUIDE
                  /\ (~HasRecursionCue(exc[c]) /\ ~HasToolCue(exc[c])
                         /\ HasTimeoutCue(exc[c])) => result[c] = TIMEOUT_GUIDE
                  /\ (~HasRecursionCue(exc[c]) /\ ~HasToolCue(exc[c])
                         /\ ~HasTimeoutCue(exc[c])) =>
                         (result[c].kind = "generic" /\ result[c].text = exc[c])

\* an exception with a recursion cue and an upper-case timeout cue was
\* answered with the recursion guidance
C9_Witness ==
    \E c \in Callers :
        /\ pc[c] = "returned" /\ raised[c]
        /\ exc[c] = {"GraphRecursionError", "TIMEOUT"}
        /\ result[c] = RECURSION_GUIDE

ToolTimedOut(c) == toolOut[c].kind = "raise" /\ toolOut[c].exc.cls = "TimeoutError"

Answered == tpc = "returned" /\ remoteCalls = 1 /\ tout.kind = "value"

\* C19: for an empty list the caller gets the list envelope with count 0, no
\* items, the fixed no-data summary and neither a schema nor an item type.
C19_EmptyList ==
    (Answered /\ tout.v.k = "list" /\ Len(tout.v.items) = 0) =>
        /\ tres.kind = "return"
        /\ DOMAIN tres.env = {"type", "count", "items", "summary"}
        /\ tres.env.type = "list" /\ tres.env.count = 0
        /\ tres.env.items = <<>> /\ tres.env.summary = "no_data"

\* the blocking entry point has returned the envelope of an empty list
C19_Witness ==
    /\ entry = "run" /\ Answered /\ tout = Returned(ListValue(<<>>))
    /\ tres.env.count = 0

\* the allow-listed keys that are present and non-null on mapping m
AllowedNonNull(m) == {key \in AllowList \cap DOMAIN m : m[key] \notin {"absent", "None"}}

\* C20: for a non-empty list the envelope has count = length and the items in
\* their order; with a mapping first, a schema sampling exactly the
\* allow-listed non-null keys of the first element and total_items = count;
\* otherwise the first element's type name and no schema.
C20_NonEmptyList ==
    (Answered /\ tout.v.k = "list" /\ Len(tout.v.items) > 0) =>
        LET items == tout.v.items
            env == tres.env
        IN /\ tres.kind = "return"
           /\ env.type = "list"
           /\ env.count = Len(items) /\ env.items = items
           /\ IF items[1].k = "dict"
              THEN /\ "schema" \in DOMAIN env
                   /\ DOMAIN env.schema.sample_fields = AllowedNonNull(items[1].f)
                   /\ env.schema.total_items = env.count
              ELSE /\ "schema" \notin DOMAIN env
                   /\ env.item_type = items[1].k

\* a two-element list whose first element is a mapping with a null
\* allow-listed key was answered with a schema that leaves the key out
C20_Witness ==
    /\ Answered /\ tout.v.k = "list" /\ Len(tout.v.items) = MaxItems
    /\ tout.v.items[1].k = "dict" /\ tout.v.items[1].f["id"] = "None"
    /\ tout.v.items[2].k # "dict"
    /\ "schema" \in DOMAIN tres.env
    /\ DOMAIN tres.env.schema.sample_fields = {}

\* the cue sets as the claims name them, tested on the text itself
HasClubCue(t) == t \cap ClubCues # {}
HasPlayerCue(t) == t \cap PlayerCues # {}
HasFanCue(t) == t \cap FanCues # {}

\* C12: the club-official, player and fan cues are tested in this order and
\* the first match wins; a text with no cue selects club-official.
C12_FirstMatchWins ==
    penh # NoMessage =>
        LET which == penh[2].of
        IN /\ HasClubCue(ptext) => which = "club_official"
           /\ (~HasClubCue(ptext) /\ HasPlayerCue(ptext)) => which = "player"
           /\ (~HasClubCue(ptext) /\ ~HasPlayerCue(ptext) /\ HasFanCue(ptext)) =>
                  which = "fan"
           /\ (~HasClubCue(ptext) /\ ~HasPlayerCue(ptext) /\ ~HasFanCue(ptext)) =>
                  which = "club_official"

\* a text with a club-official cue and a player cue selected club-official
C12_Witness ==
    /\ HasClubCue(ptext) /\ HasPlayerCue(ptext)
    /\ penh # NoMessage /\ penh[2] = Prompt("club_official")

\* C11: an execute call calls the dispatcher once, enqueues nothing while the
\* dispatcher runs and has enqueued exactly one response event when it ends.
C11_OneEvent ==
    \A c \in Callers :
        req[c].via = "execute" =>
            /\ run[c].calls = 1
            /\ pc[c] # "done" => (events[c] = 0 /\ run[c].evt = <<>>)
            /\ pc[c] = "done" => (events[c] = 1 /\ Len(run[c].evt) = 1)

\* no text was found in the context, the engine's reply was not a text the
\* reply message accepts, and the one event is the error text
C11_Witness ==
    \E c \in Callers :
        /\ pc[c] = "done" /\ req[c].via = "execute"
        /\ req[c].text = GREETING /\ result[c] = EngineReply
        /\ run[c].evt = <<"error">> /\ events[c] = 1

Personas == {"club_official", "player", "fan"}

\* C13: the message given to the engine is the system prompt, one persona
\* prompt, the user text as it came and the closing instruction of the same
\* persona, in this order; the engine is never started without it.
C13_FourParts ==
    \A c \in Callers :
        /\ pc[c] = "engine" => run[c].sent # NoMessage
        /\ run[c].sent # NoMessage =>
             /\ Len(run[c].sent) = 4
             /\ run[c].sent[1] = Prompt("system")
             /\ \E which \in Personas :
                    /\ run[c].sent[2] = Prompt(which)
                    /\ run[c].sent[4] = Closing(which)
             /\ run[c].sent[3] = Question(req[c].text)

\* a text with an upper-case fragment and a fan cue is with the engine
C13_Witness ==
    \E c \in Callers :
        /\ pc[c] = "engine" /\ "MLB" \in req[c].text
        /\ run[c].sent[2] = Prompt("fan")
        /\ run[c].sent[3].text = req[c].text

\* the session a caller's session id stands for
SessionOf(session_id) == IF TruthyId(session_id) THEN session_id.v ELSE "default"

Named(session_id) == IF session_id = "" THEN "default" ELSE session_id

Contents(seq) == [i \in 1..Len(seq) |-> seq[i].content]

\* C15: on either backend a read never fails, and every message it returns
\* was appended under the session that is read; a session nothing was
\* appended under therefore reads as empty.
C15_SessionIsolation ==
    /\ rd.ok
    /\ \A i \in 1..Len(rd.messages) :
           Named(rd.messages[i].content.under) = Named(rd.session)

\* on the durable backend a session was read as empty while another held
\* messages
C15_Witness ==
    /\ UsesRedis(mstore) /\ rd.session = "A" /\ rd.ok /\ rd.messages = <<>>
    /\ Len(mlog["default"]) = 2 /\ Messages("default").messages # <<>>

\* C16: unless operations of two threads overlapped on it, a session's
\* history holds the messages appended since its last clear, in their order.
C16_AppendOnly ==
    \A key \in Sessions :
        key \notin raced => Contents(Messages(key).messages) = Contents(mlog[key])

\* on the durable backend a session holds its two appends in order while
\* another session was written
C16_Witness ==
    /\ UsesRedis(mstore) /\ raced = {}
    /\ Len(mlog["A"]) = 2 /\ mlog["A"][1].content.n < mlog["A"][2].content.n
    /\ mlog["A"][1].type = "tool"
    /\ Len(mlog["default"]) = 1
    /\ Contents(Messages("A").messages) = Contents(mlog["A"])

\* C17: when a thread writes a session's record back, the messages other
\* threads added to the record since this thread read it are gone from it.
C17_LostUpdate ==
    \A i \in 1..Len(lastSet.lost) :
        \A j \in 1..Len(Messages(lastSet.session).messages) :
            Messages(lastSet.session).messages[j].content # lastSet.lost[i].content

\* two appends to one session have completed and the stored list lacks the
\* first one's message
C17_Witness ==
    /\ lastSet.lost # <<>>
    /\ \E i \in 1..Len(mlog[lastSet.session]) :
           mlog[lastSet.session][i] = lastSet.lost[1]
    /\ Len(Messages(lastSet.session).messages) < Len(mlog[lastSet.session])

\* the durable backend is configured, and asked for by name
Mandated(env) == Backend(env) = "redis"
Establishable(env) == env.url \notin {"unset", ""} /\ env.service = "up"

\* C18: the durable backend is attempted only when configured or auto; when
\* it cannot be established the store is in-memory, except that a mandated
\* durable backend makes the construction fail and never gives an in-memory
\* store.
C18_BackendSelection ==
    mstore.state # "new" =>
        /\ mstore.attempted => Backend(menv) \in {"auto", "redis"}
        /\ (mstore.state = "ready" /\ UsesRedis(mstore)) =>
               (mstore.attempted /\ Establishable(menv))
        /\ (~Establishable(menv) /\ ~Mandated(menv)) =>
               (mstore.state = "ready" /\ ~UsesRedis(mstore))
        /\ (~Establishable(menv) /\ Mandated(menv)) => mstore.state = "failed"

\* C18, as far as the code goes: it holds when a connection target is set
C18_WhenTargetSet == menv.url \notin {"unset", ""} => C18_BackendSelection

\* C21: a tool result that is no list is answered without an exception by
\* exactly one branch: a mapping as it is, a null result by {result: null,
\* message}, any other value by {result: its string form, type: its type
\* name}; a value that has no string form is a failure of the call (C6).
C21_NonListBranches ==
    (Answered /\ tout.v.k # "list") =>
        /\ tres.kind = "return"
        /\ tout.v.k = "dict" => tres.env = tout.v
        /\ tout.v.k = "NoneType" =>
               tres.env = [result |-> "None", message |-> "no_data"]
        /\ tout.v.k \notin {"dict", "NoneType"} =>
               IF ConversionFails(tout.v) THEN IsErrorEnvelope(tres.env)
               ELSE tres.env = [result |-> <<"str", tout.v.k>>, type |-> tout.v.k]

\* the blocking entry point has answered a null result
C21_Witness ==
    /\ entry = "run" /\ Answered /\ tout = Returned(NoneValue)
    /\ tres = Return([result |-> "None", message |-> "no_data"])

PersistedRoles == {"human", "ai", "system"}

\* the messages of a session that is read back as it was appended to
ReadBack(key) == Messages(key).messages

\* C22: every record on the durable backend has the role human, ai or
\* system, and each message of a history read back has the role and the
\* content of the message that was appended.
C22_RoleRoundTrip ==
    UsesRedis(mstore) =>
        \A key \in Sessions :
            /\ \A i \in 1..Len(kv[RedisKey(key)].arr) :
                   kv[RedisKey(key)].arr[i].role \in PersistedRoles
            /\ key \notin raced =>
                   /\ Len(ReadBack(key)) = Len(mlog[key])
                   /\ \A i \in 1..Len(mlog[key]) : ReadBack(key)[i] = mlog[key][i]

\* C22, as far as the code goes: it holds of the human and ai messages
C22_HumanAndAi ==
    UsesRedis(mstore) =>
        \A key \in Sessions :
            /\ \A i \in 1..Len(kv[RedisKey(key)].arr) :
                   kv[RedisKey(key)].arr[i].role \in PersistedRoles \cup {"tool"}
            /\ key \notin raced =>
                   /\ Len(ReadBack(key)) = Len(mlog[key])
                   /\ \A i \in 1..Len(mlog[key]) :
                          mlog[key][i].type \in {"human", "ai"} =>
                              ReadBack(key)[i] = mlog[key][i]

\* C23: cancel never raises; it forwards to the reasoning agent's object
\* exactly when that object has a cancel method; an error of the forwarded
\* cancel is swallowed; and no step of a cancel enqueues an event or changes
\* the agent handles or the tool list.
C23_CancelBestEffort ==
    /\ [](kres.outcome # "raised")
    /\ [][kres' # kres =>
             /\ kpc = "idle" => (kres'.forwarded <=> (agent # 0 /\ engineCancel))
             /\ events' = events /\ run' = run
             /\ agent' = agent /\ awm' = awm /\ tools' = tools]_vars

\* while a request was with the engine a forwarded cancel raised and the
\* error was swallowed
C23_Witness ==
    /\ pc[1] = "engine" /\ kpc = "idle"
    /\ kres = [forwarded |-> TRUE, error |-> TRUE, outcome |-> "returned"]
    /\ agent # 0 /\ events[1] = 0

\* the parts of a list that are of kind "text" with a non-empty text
TextParts(parts) ==
    {i \in 1..Len(parts) : parts[i].kind = "text" /\ parts[i].text.some
                              /\ parts[i].text.v # {}}

First(I) == CHOOSE i \in I : \A j \in I : i <= j

\* C24: the user text is the first non-empty text part of the message; with
\* none, the message's content if it is a string; with none, the first
\* non-empty text part of the raw request parameters; with none, the
\* greeting.
C24_UserTextTiers ==
    \A c \in Callers :
        req[c].via = "execute" =>
            LET x == req[c].context
                M == IF x.msg THEN TextParts(x.parts) ELSE {}
                R == IF x.raw.present THEN TextParts(x.raw.parts) ELSE {}
            IN IF M # {} THEN req[c].text = x.parts[First(M)].text.v
               ELSE IF x.msg /\ x.content.some THEN req[c].text = x.content.v
               ELSE IF R # {} THEN req[c].text = x.raw.parts[First(R)].text.v
               ELSE req[c].text = GREETING

\* a message with an empty text part, a text part, a content string and a
\* raw request with a text part: the message's text part was taken
C24_Witness ==
    \E c \in Callers :
        /\ req[c].via = "execute" /\ pc[c] = "init"
        /\ Len(req[c].context.parts) = 4 /\ req[c].context.content.some
        /\ TextParts(req[c].context.raw.parts) # {}
        /\ req[c].text = {"MLB", "iyu"}

\* C25: the session id is the first non-empty one of the parameters
\* session_id, sessionId, conversation_id, conversationId of the request;
\* with none, the message id; with none, "default".
C25_SessionIdTiers ==
    \A c \in Callers :
        req[c].via = "execute" =>
            LET x == req[c].context
                K == {i \in 1..4 : x.raw.present /\ x.raw.params[SessionKeys[i]].some
                                     /\ x.raw.params[SessionKeys[i]].v # ""}
            IN /\ req[c].session.some
               /\ IF K # {} THEN req[c].session.v = x.raw.params[SessionKeys[First(K)]].v
                  ELSE IF x.msg /\ x.mid.some /\ x.mid.v # ""
                       THEN req[c].session.v = x.mid.v
                  ELSE req[c].session.v = "default"

\* with session_id empty, conversation_id and conversationId set and a
\* message id, the id is that of conversation_id
C25_Witness ==
    \E c \in Callers :
        /\ req[c].via = "execute" /\ pc[c] = "init"
        /\ req[c].context.raw.present
        /\ req[c].context.raw.params["session_id"] = SomeId("")
        /\ req[c].context.raw.params["sessionId"] = NoId
        /\ req[c].context.raw.params["conversationId"].v # ""
        /\ req[c].context.mid = SomeId("m1")
        /\ req[c].session = SomeId("conversation_id")

\* the listing operations the client exposes, in the order they are tried
ExposedOps == SelectSeq(ListMethods, LAMBDA op : op \in methods)

IsPrefix(s, t) == Len(s) <= Len(t) /\ \A i \in 1..Len(s) : s[i] = t[i]

\* C27: in one initialization one listing operation is called, once.
C27_ListedOnce ==
    \A c \in Callers :
        /\ Len(listing[c].called) <= 1
        /\ (pc[c] = "build" /\ ExposedOps # <<>>) => Len(listing[c].called) = 1

\* C27, amended: the exposed listing operations are called in the order
\* get_tools, list_tools, list_all_tools, each at most once; one is called
\* after another only when that one answered an empty listing; and an empty
\* listing is wrapped only when no exposed operation is left.
C27_ListedInTurn ==
    \A c \in Callers :
        LET called == listing[c].called
            answers == listing[c].answers
        IN /\ IsPrefix(called, ExposedOps)
           /\ Len(answers) <= Len(called)
           /\ \A i \in 1..Len(answers) :
                  (i < Len(called) \/ ~listing[c].wrapped) =>
                      (answers[i].shape # "other" /\ Len(answers[i].entries) = 0)
           /\ (listing[c].wrapped /\ answers[Len(answers)].shape # "other"
                  /\ Len(answers[Len(answers)].entries) = 0) => called = ExposedOps
           /\ (pc[c] = "build" /\ ExposedOps # <<>>) => Len(called) >= 1

\* get_tools answered an empty list, list_tools was called next and its
\* listing was wrapped
C27_Witness ==
    \E c \in Callers :
        /\ pc[c] = "build" /\ listing[c].wrapped
        /\ listing[c].called = <<"get_tools", "list_tools">>
        /\ listing[c].answers[1] = RawList(<<>>)
        /\ "list_all_tools" \in methods
        /\ Len(tools.list) = 1

\* the listing a pass has wrapped, and the tools in it, in their order
Wrapped(c) == listing[c].answers[Len(listing[c].answers)]
ListedTools(r) ==
    [i \in 1..Len(r.entries) |-> IF r.shape = "list" THEN r.entries[i] ELSE r.entries[i].tool]

HasNameAndDescription(t) == t.name # NoAttr /\ t.kind # "nodesc"
WrapSucceeds(t) == t.kind # "badwrap"

\* one adapter, by its name, for every listed tool that has a name and a
\* description and whose wrapping succeeds
Adapters(ts) ==
    LET kept == SelectSeq(ts, LAMBDA t : HasNameAndDescription(t) /\ WrapSucceeds(t))
    IN [i \in 1..Len(kept) |-> kept[i].name]

\* no two listed tools have the same name
NamesDiffer(ts) ==
    \A i, j \in 1..Len(ts) : (i # j /\ ts[i].name # NoAttr) => ts[i].name # ts[j].name

\* C26: after a discovery the tool list has one adapter for each listed tool
\* with a name and a description, none for a tool lacking either, and a tool
\* whose wrapping fails is left out while the others are wrapped.
C26_OneAdapterPerTool ==
    \A c \in Callers :
        (listing[c].wrapped /\ Wrapped(c).shape # "other") =>
            (tools.set /\ tools.list = Adapters(ListedTools(Wrapped(c))))

\* C26, as far as the code goes: it holds when the listed names differ
C26_WhenNamesDiffer ==
    \A c \in Callers :
        (listing[c].wrapped /\ Wrapped(c).shape # "other"
            /\ NamesDiffer(ListedTools(Wrapped(c)))) =>
            (tools.set /\ tools.list = Adapters(ListedTools(Wrapped(c))))

\* the tools of a list as a mapping keyed by their names, in the same order
AsMapping(ts) ==
    [i \in 1..Len(ts) |-> Entry(IF ts[i].name # NoAttr THEN NameKey(ts[i].name)
                                 ELSE IndexKey(i - 1), ts[i])]

\* C28: a listing given as a list is wrapped into the tool list that the
\* same tools given as a name-keyed mapping are wrapped into, and no listed
\* tool with a name and a description is missing from it.
C28_ShapesEquivalent ==
    \A c \in Callers :
        (listing[c].wrapped /\ Wrapped(c).shape = "list") =>
            /\ tools.list = WrapAll(AsMapping(Wrapped(c).entries))
            /\ \A i \in 1..Len(Wrapped(c).entries) :
                   LET t == Wrapped(c).entries[i]
                   IN (HasNameAndDescription(t) /\ WrapSucceeds(t)) =>
                          \E j \in 1..Len(tools.list) : tools.list[j] = t.name

\* C28, as far as the code goes: it holds when the listed names differ
C28_WhenNamesDiffer ==
    \A c \in Callers :
        (listing[c].wrapped /\ Wrapped(c).shape = "list"
            /\ NamesDiffer(Wrapped(c).entries)) =>
            tools.list = WrapAll(AsMapping(Wrapped(c).entries))

C29_ToolsSetUncancelled == agent # 0 => tools.set


\* the discover-and-build section (lines 230-299)
InSection(c) == pc[c] \in {"connect", "await_connect", "list", "await_list", "build"}

\* the lock is held by nobody but a task inside the section
C30_ReleasedOnExit == \A c \in Callers : lock = c => InSection(c)

\* C30: the lock is released on every exit from the section, and a caller
\* waiting for it eventually stops waiting.
C30_LockReleased ==
    /\ [](C30_ReleasedOnExit)
    /\ \A c \in Callers : (pc[c] = "lock_wait") ~> (pc[c] # "lock_wait")

\* the holder awaits a listing call that never answers
HolderHangs == \E d \in Callers : lock = d /\ pc[d] = "await_list" /\ pend[d] = "hang"

\* C30, as far as the code goes: a waiting caller stops waiting unless the
\* holder's listing call never answers (see C4)
C30_UnlessListingHangs ==
    \A c \in Callers : (pc[c] = "lock_wait") ~> (pc[c] # "lock_wait" \/ HolderHangs)

====
